---- MODULE Spec2Model ----
(***************************************************************************)
(* A model of the Ares decoding library (JackkySpice/Ares):                *)
(*   - the Athena checker facade            (src/src/checkers/athena.rs)    *)
(*   - the library entry point and its cache (src/src/lib.rs)               *)
(*   - the parallel decoder dispatch  (src/src/filtration_system/mod.rs)    *)
(*   - the decoder filter             (src/src/filtration_system/mod.rs)    *)
(*   - the decoders' crack                      (src/src/decoders/*.rs)     *)
(*   - the text statistics               (src/src/cryptanalysis/mod.rs)     *)
(* The specifications share the variables: Spec (perform_cracking),        *)
(* SpecAthena (Checker<Athena>::check), SpecRun (Decoders::run),           *)
(* SpecFilter (filter_decoders_by_tags), SpecCrack (Crack::crack) and      *)
(* SpecFn (the pure functions of the decoders and of the cryptanalysis).   *)
(***************************************************************************)
EXTENDS Integers, Sequences, FiniteSets, TLC

VARIABLES
    cache,        \* perform: the cache table, input text -> <<>> or <<row>>
    tally,        \* perform: the process-wide plaintext tally (top_results mode)
    call,         \* perform: <<>> or <<record of the last perform_cracking call>>
    athIn,        \* athena: the arguments of the check (config, sub-checker verdicts, human reply)
    athOut,       \* athena: <<>> before the check, <<result>> after it
    outcome,      \* run: what each decoder's crack does on the text
    status,       \* run: per decoder, where its parallel task is
    chan,         \* run: the mpsc channel, a FIFO of CrackResults
    full,         \* run: the short-circuit flag of try_for_each_with
    panicked,     \* run: a task of the fan-out has panicked
    all_results,  \* run: the collector's vector
    pc,           \* run: position of the calling thread
    ret,          \* run: <<>> or <<what run returned>>
    filt,         \* filter: <<>> or <<the arguments of filter_decoders_by_tags>>
    filtered,     \* filter: <<>> or <<the components of the returned Decoders>>
    crackIn,      \* crack: <<>> or <<the decoder, its input text and the checker>>
    crackOut,     \* crack: <<>> or <<the CrackResult returned>>
    fnIn,         \* function: <<>> or <<the function called and its argument>>
    fnOut         \* function: <<>> or <<the value returned>>

performVars == <<cache, tally, call>>
athenaVars  == <<athIn, athOut>>
runVars     == <<outcome, status, chan, full, panicked, all_results, pc, ret>>
filterVars  == <<filt, filtered>>
crackVars   == <<crackIn, crackOut>>
fnVars      == <<fnIn, fnOut>>
vars == <<cache, tally, call, athIn, athOut,
          outcome, status, chan, full, panicked, all_results, pc, ret,
          filt, filtered, crackIn, crackOut, fnIn, fnOut>>

FilterIdle == filt = <<>> /\ filtered = <<>>

CrackIdle == crackIn = <<>> /\ crackOut = <<>>

FnIdle == fnIn = <<>> /\ fnOut = <<>>

Last(s) == s[Len(s)]

Range(s) == { s[i] : i \in DOMAIN s }

(***************************************************************************)
(*                      Checker<Athena>::check                             *)
(***************************************************************************)

\* The sub-checkers Athena owns, by the name of their checker type.
SubCheckers == {"RegexChecker", "WordlistChecker", "LemmeKnow", "PasswordChecker", "EnglishChecker"}

\* The name carried by CheckResult::new(self) of the facade.
AthenaName == "Athena Checker"

\* human_checker::human_checker(&result, config): the confirmation
\* collaborator is asked only when human_checker_on; otherwise the positive stands.
human_checker(reply, config) ==
    IF config.human_checker_on THEN reply ELSE TRUE

\* The sub-checkers Athena.check consults for a config, in the order of its
\* code: the regex branch alone, else wordlist (if configured), LemmeKnow,
\* password, English.
AthenaOrder_regexFallsThrough(config) ==
    (IF config.regex THEN <<"RegexChecker">> ELSE <<>>)
    \o (IF config.wordlist THEN <<"WordlistChecker">> ELSE <<>>)
    \o <<"LemmeKnow", "PasswordChecker", "EnglishChecker">>

AthenaOrder_passwordFirst(config) ==
    IF config.regex
    THEN <<"RegexChecker">>
    ELSE (IF config.wordlist THEN <<"WordlistChecker">> ELSE <<>>)
         \o <<"PasswordChecker", "LemmeKnow", "EnglishChecker">>

AthenaOrder(config) ==
    IF config.regex
    THEN <<"RegexChecker">>
    ELSE (IF config.wordlist THEN <<"WordlistChecker">> ELSE <<>>)
         \o <<"LemmeKnow", "PasswordChecker", "EnglishChecker">>

\* One `let r = checker.check(text, config); if r.is_identified { ...; return check_res; }`
\* block after the other: the first positive sub-checker ends the check with a
\* CheckResult::new(that checker) whose is_identified is the human_checker's value.
RECURSIVE AthenaScan(_, _, _, _, _)
AthenaScan(order, i, verdict, reply, config) ==
    IF i > Len(order)
    THEN [checker_name  |-> AthenaName,
          confirmations |-> 0,
          consulted     |-> order,
          is_identified |-> FALSE]
    ELSE IF verdict[order[i]]
         THEN [checker_name  |-> order[i],
               confirmations |-> 1,
               consulted     |-> SubSeq(order, 1, i),
               is_identified |-> human_checker(reply, config)]
         ELSE AthenaScan(order, i + 1, verdict, reply, config)

AthenaCheck_ignoresReply(config, verdict, reply) ==
    AthenaScan(AthenaOrder(config), 1, verdict, TRUE, config)

\* Checker<Athena>::check(text, config); the text enters through the
\* verdicts of the sub-checkers on it.
AthenaCheck(config, verdict, reply) ==
    AthenaScan(AthenaOrder(config), 1, verdict, reply, config)

AthenaConfigs ==
    [human_checker_on : BOOLEAN, regex : BOOLEAN, wordlist : BOOLEAN]

AthenaInputs ==
    [config : AthenaConfigs, reply : BOOLEAN, verdict : [SubCheckers -> BOOLEAN]]

AthenaIdle == [config  |-> [human_checker_on |-> FALSE, regex |-> FALSE, wordlist |-> FALSE],
               reply   |-> FALSE,
               verdict |-> [c \in SubCheckers |-> FALSE]]

\* The caller runs the check on its arguments.
AthenaCheckStep ==
    /\ athOut = <<>>
    /\ athOut' = <<AthenaCheck(athIn.config, athIn.verdict, athIn.reply)>>
    /\ UNCHANGED <<athIn, performVars, runVars, filterVars, crackVars, fnVars>>

\* The next check, on other arguments.
AthenaNextCall ==
    /\ athOut # <<>>
    /\ athIn' \in AthenaInputs
    /\ athOut' = <<>>
    /\ UNCHANGED <<performVars, runVars, filterVars, crackVars, fnVars>>

(***************************************************************************)
(*                 perform_cracking and the cache                          *)
(***************************************************************************)

\* The texts perform_cracking is called on: the empty string, an IPv4 address
\* and the Base64 text of the library's own test.
EmptyText  == ""
IpText     == "10.0.0.1"
Base64Text == "aGVsbG8gdGhlcmUgZ2VuZXJhbA=="

Inputs == {EmptyText, IpText, Base64Text}

\* normalise_string(text).len(): the text lowercased, ASCII punctuation dropped.
NormalisedLen(text) ==
    CASE text = "" -> 0
      [] text \in {"10.0.0.1", "65.5.5.6"} -> 5
      [] text = "aGVsbG8gdGhlcmUgZ2VuZXJhbA==" -> 26
      [] text = "hello there general" -> 19

\* !is_gibberish(normalized, sensitivity): the detector accepts the sentence;
\* its answer on a string too short to judge is not relied upon and taken as
\* an acceptance.
NotGibberish(text) == text \in {"hello there general", ""}

\* The cryptanalysis fallback needs 30 characters after normalisation.
CryptanalysisCheck(text) == NormalisedLen(text) >= 30 /\ FALSE

\* Checker<EnglishChecker>::check: the detector or the fallback, and never a
\* string shorter than two characters after normalisation.
EnglishCheck_noLengthGuard(text) ==
    NotGibberish(text) \/ CryptanalysisCheck(text)

EnglishCheck(text) ==
    LET is_identified == NotGibberish(text) \/ CryptanalysisCheck(text)
    IN  IF NormalisedLen(text) < 2 THEN FALSE ELSE is_identified

\* The domain identifier knows IPv4 addresses.
LemmeKnowCheck(text) == text \in {"10.0.0.1", "65.5.5.6"}

\* What the sub-checkers say about a text under Config::default(); the regex
\* and wordlist checkers have nothing configured, no text of the model is a
\* common password.
SubVerdict(text) ==
    [c \in SubCheckers |->
        CASE c = "LemmeKnow"      -> LemmeKnowCheck(text)
          [] c = "EnglishChecker" -> EnglishCheck(text)
          [] OTHER                -> FALSE]

\* Config::default(), as far as Athena reads it.
DefaultConfig == [human_checker_on |-> FALSE, regex |-> FALSE, wordlist |-> FALSE]

\* The configs perform_cracking is called with: the fields the entry point,
\* the checkers and the search read.  A timeout of 0 leaves the search no time.
Timeouts == {0, 5}

Configs ==
    [human_checker_on : BOOLEAN, regex : BOOLEAN, timeout : Timeouts,
     top_results : BOOLEAN, wordlist : BOOLEAN]

\* The failures of the storage layer during one call.
Faults == [read : BOOLEAN, setup : BOOLEAN, store : BOOLEAN]

NoFaults == [read |-> FALSE, setup |-> FALSE, store |-> FALSE]

EmptyCache == [x \in Inputs |-> <<>>]

\* The name Decoder::default() carries (lib.rs test, line 418).
DefaultDecoderName == "Default decoder"

\* CrackResult::new(decoder, text): nothing decoded, no key, no success yet.
CrackResult_new(decoder, text) ==
    [checker_name     |-> "",
     decoder          |-> decoder,
     encrypted_text   |-> text,
     key              |-> <<>>,
     success          |-> FALSE,
     unencrypted_text |-> <<>>]

\* serde_json of one CrackResult, as the cache table stores it.
Serialize(crack_result) == [ok |-> TRUE, value |-> crack_result]

\* serde_json::from_str on one stored element: Ok(value) or Err.
DeserializeOk(crack_json) == crack_json.ok

\* row.path.iter().map(from_str).collect::<Result<Vec<_>, _>>(): Ok only when
\* every element deserializes.
PathDeserializes(row) == \A i \in DOMAIN row.path : DeserializeOk(row.path[i])

DeserializedPath(row) == [i \in DOMAIN row.path |-> row.path[i].value]

\* storage::database::read_cache(&text): Err, Ok(None) or Ok(Some(row)).
read_cache(text, c, faults) ==
    [err |-> faults.read,
     row |-> IF faults.read THEN <<>> ELSE c[text]]

insert_cache_dropsPath(entry, c, faults) ==
    IF faults.store
    THEN c
    ELSE [c EXCEPT ![entry.encoded_text] = <<[decoded_text |-> entry.decoded_text, path |-> <<>>]>>]

\* storage::database::insert_cache(&entry): the row replaces what the key held,
\* or the insert fails and the table is as before.
insert_cache(entry, c, faults) ==
    IF faults.store
    THEN c
    ELSE [c EXCEPT ![entry.encoded_text] =
            <<[decoded_text |-> entry.decoded_text,
               path |-> [i \in DOMAIN entry.path |-> Serialize(entry.path[i])]]>>]

\* success_result_to_cache: the entry built from the input text and the result.
CacheEntryOf_storesInput(text, result) ==
    [decoded_text |-> text,
     encoded_text |-> text,
     path         |-> result.path]

CacheEntryOf(text, result) ==
    [decoded_text |-> IF result.text # <<>> THEN Last(result.text) ELSE "",
     encoded_text |-> text,
     path         |-> result.path]

\* The decoders of the registry that apply to the texts above, with what they
\* produce: ROT5 turns the digits of the address, Base64 decodes the sentence.
DecodeTable ==
    { [decoder |-> "ROT5",   from |-> "10.0.0.1", to |-> "65.5.5.6"],
      [decoder |-> "Base64", from |-> "aGVsbG8gdGhlcmUgZ2VuZXJhbA==", to |-> "hello there general"] }

\* The DecoderResult the search returns for one edge of the table.
ChainResult(edge) ==
    [path |-> << [checker_name     |-> AthenaCheck(DefaultConfig, SubVerdict(edge.to), TRUE).checker_name,
                  decoder          |-> edge.decoder,
                  encrypted_text   |-> edge.from,
                  key              |-> <<>>,
                  success          |-> TRUE,
                  unencrypted_text |-> <<edge.to>>] >>,
     text |-> <<edge.to>>]

\* searchers::search_for_plaintext(text, config): None when the deadline is
\* reached or the frontier is exhausted, else the chain of a checker-positive
\* candidate.  In top_results mode the positives are appended to the tally.
SearchOutcomes(text, config) ==
    { [found |-> <<>>, result |-> <<>>] }
    \cup IF config.timeout = 0
         THEN {}
         ELSE { [found  |-> IF config.top_results
                            THEN <<[checker_name |-> ChainResult(e).path[1].checker_name, text |-> e.to]>>
                            ELSE <<>>,
                 result |-> <<ChainResult(e)>>]
                : e \in { d \in DecodeTable : d.from = text } }

\* check_if_input_text_is_plaintext: WaitAthena in top_results mode, Athena
\* otherwise, both on Config::default().  WaitAthena records a positive in the
\* tally and reports negative.
check_if_input_text_is_plaintext_userConfig(text, config, t) ==
    LET a == AthenaCheck([human_checker_on |-> config.human_checker_on,
                          regex |-> config.regex, wordlist |-> config.wordlist],
                         SubVerdict(text), TRUE)
    IN  [result |-> a, tally |-> t]

check_if_input_text_is_plaintext(text, config, t) ==
    LET a == AthenaCheck(DefaultConfig, SubVerdict(text), TRUE)
    IN  IF config.top_results
        THEN [result |-> [a EXCEPT !.is_identified = FALSE, !.checker_name = AthenaName],
              tally  |-> IF a.is_identified
                         THEN Append(t, [checker_name |-> a.checker_name, text |-> text])
                         ELSE t]
        ELSE [result |-> a, tally |-> t]

\* The part of perform_cracking after the cache lookup has not served the call
\* (lib.rs 172-221): the entry plaintext check, else the search, and the
\* write-through of a result.
AfterLookup(text, config, c, t, faults, s, events) ==
    LET chk == check_if_input_text_is_plaintext(text, config, t)
    IN  IF chk.result.is_identified
        THEN LET crack_result == [CrackResult_new(DefaultDecoderName, text)
                                    EXCEPT !.checker_name = chk.result.checker_name]
                 output == [path |-> <<crack_result>>, text |-> <<text>>]
                 entry  == CacheEntryOf(text, output)
             IN  [cache      |-> insert_cache(entry, c, faults),
                  events     |-> events \o <<"check", "store">>,
                  from_cache |-> FALSE,
                  ret        |-> <<output>>,
                  stores     |-> <<entry>>,
                  tally      |-> chk.tally]
        ELSE IF s.result # <<>>
        THEN LET output == s.result[1]
                 entry  == CacheEntryOf(text, output)
             IN  [cache      |-> insert_cache(entry, c, faults),
                  events     |-> events \o <<"check", "search", "store">>,
                  from_cache |-> FALSE,
                  ret        |-> s.result,
                  stores     |-> <<entry>>,
                  tally      |-> chk.tally \o s.found]
        ELSE [cache      |-> c,
              events     |-> events \o <<"check", "search">>,
              from_cache |-> FALSE,
              ret        |-> <<>>,
              stores     |-> <<>>,
              tally      |-> chk.tally \o s.found]

CacheServes_ignoresBadPath(text, c, faults) ==
    LET cache_result == read_cache(text, c, faults)
    IN  /\ ~cache_result.err
        /\ cache_result.row # <<>>

\* The cache lookup of perform_cracking (lib.rs 133-170): a row whose whole
\* path deserializes is returned at once; a missing row, a read error and a
\* row that does not deserialize all fall through.
CacheServes(text, c, faults) ==
    LET cache_result == read_cache(text, c, faults)
    IN  /\ ~cache_result.err
        /\ cache_result.row # <<>>
        /\ PathDeserializes(cache_result.row[1])

PerformCracking_neverServes(text, config0, c, t, faults, s) ==
    AfterLookup(text, config0, c, t, faults, s, <<"setup_database", "read_cache">>)

\* The config perform_cracking works with (lib.rs 111-116): in top_results
\* mode the human checker is switched off.
NormalizeConfig(config0) ==
    IF config0.top_results
    THEN [config0 EXCEPT !.human_checker_on = FALSE]
    ELSE config0

PerformCracking_keepsTally(text, config0, c, t, faults, s) ==
    LET config == NormalizeConfig(config0)
        events == (IF config0.top_results THEN <<"clear_tally">> ELSE <<>>)
                  \o <<"setup_database", "read_cache">>
    IN  IF CacheServes(text, c, faults)
        THEN LET row == read_cache(text, c, faults).row[1]
             IN  [cache      |-> c,
                  events     |-> events,
                  from_cache |-> TRUE,
                  ret        |-> <<[path |-> DeserializedPath(row),
                                    text |-> <<row.decoded_text>>]>>,
                  stores     |-> <<>>,
                  tally      |-> t]
        ELSE AfterLookup(text, config, c, t, faults, s, events)

\* perform_cracking(text, config) on cache table c and tally t, with the
\* storage failures and the search outcome of this call.
PerformCracking(text, config0, c, t, faults, s) ==
    LET config == NormalizeConfig(config0)
        t1     == IF config0.top_results THEN <<>> ELSE t
        events == (IF config0.top_results THEN <<"clear_tally">> ELSE <<>>)
                  \o <<"setup_database", "read_cache">>
    IN  IF CacheServes(text, c, faults)
        THEN LET row == read_cache(text, c, faults).row[1]
             IN  [cache      |-> c,
                  events     |-> events,
                  from_cache |-> TRUE,
                  ret        |-> <<[path |-> DeserializedPath(row),
                                    text |-> <<row.decoded_text>>]>>,
                  stores     |-> <<>>,
                  tally      |-> t1]
        ELSE AfterLookup(text, config, c, t1, faults, s, events)

\* One call of perform_cracking.
Perform(text, config, faults, s) ==
    LET r == PerformCracking(text, config, cache, tally, faults, s)
    IN  /\ call = <<>>
        /\ cache' = r.cache
        /\ tally' = r.tally
        /\ call' = <<[cacheBefore |-> cache,
                      config      |-> config,
                      events      |-> r.events,
                      faults      |-> faults,
                      from_cache  |-> r.from_cache,
                      ret         |-> r.ret,
                      search      |-> s,
                      stores      |-> r.stores,
                      tallyBefore |-> tally,
                      text        |-> text]>>
        /\ UNCHANGED <<athenaVars, runVars, filterVars, crackVars, fnVars>>

PerformStep ==
    \E text \in Inputs, config \in Configs, faults \in Faults :
        \E s \in SearchOutcomes(text, config) :
            Perform(text, config, faults, s)

\* The caller is done with the returned Option<DecoderResult>.
DropResult ==
    /\ call # <<>>
    /\ call' = <<>>
    /\ UNCHANGED <<cache, tally, athenaVars, runVars, filterVars, crackVars, fnVars>>

\* Between two calls the table on disk is rewritten by another writer with a
\* chain this build cannot deserialize.
CorruptCacheRow ==
    \E text \in Inputs :
        /\ call = <<>>
        /\ cache[text] # <<>>
        /\ PathDeserializes(cache[text][1])
        /\ cache[text][1].path # <<>>
        /\ cache' = [cache EXCEPT ![text] =
                        <<[@[1] EXCEPT !.path = [i \in DOMAIN @ |-> [@[i] EXCEPT !.ok = FALSE]]]>>]
        /\ UNCHANGED <<tally, call, athenaVars, runVars, filterVars, crackVars, fnVars>>

RunIdle ==
    /\ outcome = <<>>
    /\ status = <<>>
    /\ chan = <<>>
    /\ full = FALSE
    /\ panicked = FALSE
    /\ all_results = <<>>
    /\ pc = "idle"
    /\ ret = <<>>

PerformIdle ==
    /\ cache = EmptyCache
    /\ tally = <<>>
    /\ call = <<>>

Init ==
    /\ PerformIdle
    /\ athIn = AthenaIdle
    /\ athOut = <<>>
    /\ RunIdle
    /\ FilterIdle
    /\ CrackIdle
    /\ FnIdle

Next ==
    \/ PerformStep
    \/ DropResult
    \/ CorruptCacheRow

Spec == Init /\ [][Next]_vars

InitAthena ==
    /\ PerformIdle
    /\ athIn \in AthenaInputs
    /\ athOut = <<>>
    /\ RunIdle
    /\ FilterIdle
    /\ CrackIdle
    /\ FnIdle

NextAthena ==
    \/ AthenaCheckStep
    \/ AthenaNextCall

SpecAthena == InitAthena /\ [][NextAthena]_vars

(***************************************************************************)
(*                          Decoders::run                                  *)
(***************************************************************************)

\* The number of decoders in self.components.
NumDecoders == 3

Components == 1 .. NumDecoders

\* What i.crack(text, checker, config) does for one decoder: it returns a
\* CrackResult with success false or true, or it panics.
CrackOutcomes == {"fail", "success", "panic"}

\* The text handed to run.
RunText == "TXIgUm9ib3QgaXMgZ3JlYXQ="

\* The CrackResult decoder d returns on a text.
CrackResultOf(d, text, o) ==
    [decoder |-> d, encrypted_text |-> text, success |-> (o = "success")]

TaskDone(d) == status[d] \in {"sent", "skipped", "panicked"}

\* The pool begins the closure for one component.  A worker that has not yet
\* observed the short-circuit consumes its next item all the same.
StartTask(d) ==
    /\ pc = "fanout"
    /\ status[d] = "pending"
    /\ status' = [status EXCEPT ![d] = "running"]
    /\ UNCHANGED <<outcome, chan, full, panicked, all_results, pc, ret, performVars, athenaVars, filterVars, crackVars, fnVars>>

\* After a closure returned None (or a task unwound) the items not yet begun
\* are dropped.
SkipTask(d) ==
    /\ pc = "fanout"
    /\ status[d] = "pending"
    /\ full \/ panicked
    /\ status' = [status EXCEPT ![d] = "skipped"]
    /\ UNCHANGED <<outcome, chan, full, panicked, all_results, pc, ret, performVars, athenaVars, filterVars, crackVars, fnVars>>

\* The closure of try_for_each_with: crack returns, the result is sent, and a
\* success returns None, which short-circuits the iterator.
FinishTask(d) ==
    /\ pc = "fanout"
    /\ status[d] = "running"
    /\ outcome[d] # "panic"
    /\ chan' = Append(chan, CrackResultOf(d, RunText, outcome[d]))
    /\ full' = (full \/ outcome[d] = "success")
    /\ status' = [status EXCEPT ![d] = "sent"]
    /\ UNCHANGED <<outcome, panicked, all_results, pc, ret, performVars, athenaVars, filterVars, crackVars, fnVars>>

\* crack panics inside the closure: nothing is sent and the task unwinds.
PanicTask(d) ==
    /\ pc = "fanout"
    /\ status[d] = "running"
    /\ outcome[d] = "panic"
    /\ panicked' = TRUE
    /\ status' = [status EXCEPT ![d] = "panicked"]
    /\ UNCHANGED <<outcome, chan, full, all_results, pc, ret, performVars, athenaVars, filterVars, crackVars, fnVars>>

\* try_for_each_with returns to the caller once every task is over, the
\* senders are dropped; a panic of a task is resumed in the caller, which
\* unwinds out of run.
JoinFanout ==
    /\ pc = "fanout"
    /\ \A d \in Components : TaskDone(d)
    /\ IF panicked
       THEN /\ pc' = "unwound"
            /\ ret' = <<[kind |-> "Panic", result |-> <<>>, results |-> <<>>]>>
       ELSE /\ pc' = "collect"
            /\ ret' = ret
    /\ UNCHANGED <<outcome, status, chan, full, panicked, all_results, performVars, athenaVars, filterVars, crackVars, fnVars>>

\* while let Ok(result) = receiver.recv(): a success returns Break at once,
\* anything else is pushed.
RecvResult ==
    /\ pc = "collect"
    /\ chan # <<>>
    /\ chan' = Tail(chan)
    /\ IF Head(chan).success
       THEN /\ ret' = <<[kind |-> "Break", result |-> <<Head(chan)>>, results |-> <<>>]>>
            /\ pc' = "returned"
            /\ all_results' = all_results
       ELSE /\ all_results' = Append(all_results, Head(chan))
            /\ pc' = pc
            /\ ret' = ret
    /\ UNCHANGED <<outcome, status, full, panicked, performVars, athenaVars, filterVars, crackVars, fnVars>>

RecvDisconnected_senderKept ==
    /\ pc = "collect"
    /\ chan = <<>>
    /\ UNCHANGED vars

\* recv fails when the channel is empty and every sender is gone: Continue.
RecvDisconnected ==
    /\ pc = "collect"
    /\ chan = <<>>
    /\ ret' = <<[kind |-> "Continue", result |-> <<>>, results |-> all_results]>>
    /\ pc' = "returned"
    /\ UNCHANGED <<outcome, status, chan, full, panicked, all_results, performVars, athenaVars, filterVars, crackVars, fnVars>>

InitRun ==
    /\ PerformIdle
    /\ athIn = AthenaIdle
    /\ athOut = <<>>
    /\ outcome \in [Components -> CrackOutcomes]
    /\ status = [d \in Components |-> "pending"]
    /\ chan = <<>>
    /\ full = FALSE
    /\ panicked = FALSE
    /\ all_results = <<>>
    /\ pc = "fanout"
    /\ ret = <<>>
    /\ FilterIdle
    /\ CrackIdle
    /\ FnIdle

NextRun ==
    \/ \E d \in Components : StartTask(d)
    \/ \E d \in Components : SkipTask(d)
    \/ \E d \in Components : FinishTask(d)
    \/ \E d \in Components : PanicTask(d)
    \/ JoinFanout
    \/ RecvResult
    \/ RecvDisconnected

SpecRun == InitRun /\ [][NextRun]_vars

\* run under a scheduler that lets it go on: the pool keeps running the tasks
\* it has, every crack in progress comes to its end, and the calling thread
\* goes on whenever try_for_each_with or recv can return.
FairSpecRun == SpecRun /\ WF_vars(NextRun)

(***************************************************************************)
(*                 Properties of perform_cracking                          *)
(***************************************************************************)

\* The top-level Athena check (Athena on Config::default()) is positive on a text.
AthenaPositive(text) ==
    AthenaCheck(DefaultConfig, SubVerdict(text), TRUE).is_identified

\* The trivial chain: the text itself and one record naming the Default decoder.
IsDefaultResult(r, text) ==
    /\ r # <<>>
    /\ r[1].text = <<text>>
    /\ Len(r[1].path) = 1
    /\ r[1].path[1].decoder = DefaultDecoderName

\* The lookup of the call's text found a row (the read succeeded and the table
\* held a row for the exact text) whose chain deserializes.
LookupFound(c) ==
    /\ ~c.faults.read
    /\ c.cacheBefore[c.text] # <<>>
    /\ PathDeserializes(c.cacheBefore[c.text][1])

C2_CacheHitReturnsEntry ==
    call # <<>> =>
        (LookupFound(call[1]) =>
            LET row == call[1].cacheBefore[call[1].text][1]
            IN  /\ call[1].ret = <<[path |-> DeserializedPath(row),
                                    text |-> <<row.decoded_text>>]>>
                /\ "check" \notin Range(call[1].events)
                /\ "search" \notin Range(call[1].events)
                /\ "store" \notin Range(call[1].events)
                /\ call[1].stores = <<>>
                /\ cache = call[1].cacheBefore)

C2_Witness ==
    /\ call # <<>>
    /\ LookupFound(call[1])
    /\ call[1].ret # <<>>
    /\ call[1].ret[1].path[1].decoder = "Base64"
    /\ call[1].faults.store

\* C3: a call that returns a result not served from the cache attempts
\* exactly one store, keyed by the input text and holding the returned chain
\* and the last element of the returned text; a call that returns null
\* attempts none.
C3_OneStorePerFreshResult ==
    call # <<>> =>
        LET c == call[1]
            stored == { i \in DOMAIN c.events : c.events[i] = "store" }
        IN  /\ Cardinality(stored) = Len(c.stores)
            /\ (c.ret # <<>> /\ ~LookupFound(c)) =>
                    /\ Len(c.stores) = 1
                    /\ c.stores[1].encoded_text = c.text
                    /\ c.stores[1].path = c.ret[1].path
                    /\ c.stores[1].decoded_text = Last(c.ret[1].text)
            /\ (c.ret = <<>>) => c.stores = <<>>

C3_Witness ==
    /\ call # <<>>
    /\ ~LookupFound(call[1])
    /\ call[1].ret # <<>>
    /\ call[1].ret[1].path[1].decoder = "Base64"
    /\ Len(call[1].stores) = 1

\* What the call would return with an empty, working cache.
MissResult(c) ==
    PerformCracking(c.text, c.config, EmptyCache, c.tallyBefore, NoFaults, c.search).ret

\* The row the table held for the call's text does not deserialize.
BadChain(c) ==
    /\ c.cacheBefore[c.text] # <<>>
    /\ ~PathDeserializes(c.cacheBefore[c.text][1])

\* The one store the call attempted failed.
StoreFailed(c) == c.faults.store /\ c.stores # <<>>

C5_EmptyInputReturnsNull ==
    call # <<>> => (call[1].text = EmptyText => call[1].ret = <<>>)

C5_Witness ==
    /\ call # <<>>
    /\ call[1].text = EmptyText
    /\ call[1].config.top_results
    /\ call[1].config.regex
    /\ call[1].ret = <<>>

(***************************************************************************)
(*                    Properties of Decoders::run                          *)
(***************************************************************************)

\* run is over: it returned, or it was left by unwinding.
RunOver == pc \in {"returned", "unwound"}

\* A decoder that ran reported success = true.
SuccessReported == \E d \in Components : status[d] = "sent" /\ outcome[d] = "success"

\* C6: under every scheduling, once run is over it has returned Break with a
\* successful CrackResult if a decoder of the set reported success, and it has
\* returned Continue only if no decoder that ran reported success.
C6_BreakWheneverSuccess ==
    RunOver =>
        /\ SuccessReported =>
                /\ ret[1].kind = "Break"
                /\ ret[1].result # <<>>
                /\ ret[1].result[1].success
        /\ ret[1].kind = "Continue" => ~SuccessReported

\* C7: under every scheduling, when no decoder of the set succeeds on the text
\* run returns Continue holding exactly one CrackResult per decoder of the set,
\* each computed on the text run was given.
C7_ContinueHasEveryResult ==
    (RunOver /\ \A d \in Components : outcome[d] # "success") =>
        /\ ret[1].kind = "Continue"
        /\ Len(ret[1].results) = NumDecoders
        /\ \A d \in Components :
                Cardinality({ i \in DOMAIN ret[1].results : ret[1].results[i].decoder = d }) = 1
        /\ \A i \in DOMAIN ret[1].results : ret[1].results[i].encrypted_text = RunText

\* C8: a panic inside one decoder does not abort the dispatch: run still
\* returns Break or Continue, built from the results of the other decoders.
C8_PanicDoesNotAbortRun ==
    (RunOver /\ \E d \in Components : status[d] = "panicked") =>
        /\ ret[1].kind \in {"Break", "Continue"}
        /\ ret[1].kind = "Continue" =>
                { ret[1].results[i].decoder : i \in DOMAIN ret[1].results }
                    = { d \in Components : status[d] = "sent" }

\* With no panicking decoder in the set the dispatch does what C6 and C7 say.
RunWithoutPanic ==
    (\A d \in Components : outcome[d] # "panic") =>
        /\ C6_BreakWheneverSuccess
        /\ C7_ContinueHasEveryResult
        /\ pc # "unwound"

\* C29: when every decoder's crack returns, run returns under every
\* interleaving of the workers: the collector does not wait forever on the
\* channel, since every sender is dropped when the fan-out is over, also after
\* a short-circuit.
C29_RunAlwaysReturns ==
    (\A d \in Components : outcome[d] # "panic") => <>(pc = "returned")

\* run returned Continue after a fan-out that a success cut short: one
\* decoder was skipped, and the success was not the first result received.
C29_Witness ==
    /\ pc = "returned"
    /\ \A d \in Components : outcome[d] # "panic"
    /\ full
    /\ \E d \in Components : status[d] = "skipped"
    /\ ret[1].kind = "Break"
    /\ all_results # <<>>

(***************************************************************************)
(*                 Properties of Checker<Athena>::check                    *)
(***************************************************************************)

\* C9: with config.regex set the check consults the regex checker and no
\* other, and its result is positive only if the regex checker is positive.
C9_RegexOnly ==
    (athOut # <<>> /\ athIn.config.regex) =>
        /\ athOut[1].consulted = <<"RegexChecker">>
        /\ athOut[1].is_identified => athIn.verdict["RegexChecker"]

C9_Witness ==
    /\ athOut # <<>>
    /\ athIn.config.regex
    /\ athIn.config.wordlist
    /\ ~athIn.verdict["RegexChecker"]
    /\ athIn.verdict["WordlistChecker"]
    /\ athIn.verdict["LemmeKnow"]
    /\ athIn.verdict["EnglishChecker"]
    /\ ~athOut[1].is_identified

\* The priority order of C10 for a config without regex.
PriorityOrder(config) ==
    (IF config.wordlist THEN <<"WordlistChecker">> ELSE <<>>)
    \o <<"LemmeKnow", "PasswordChecker", "EnglishChecker">>

\* C10: with config.regex not set the check consults UserWordlist (only when
\* config.wordlist is set), DomainIdentifier, PasswordList, English in that
\* order, stops at the first positive one and returns a result attributed to
\* it; when none is positive all were consulted and the result is negative.
C10_FirstPositiveInOrder ==
    (athOut # <<>> /\ ~athIn.config.regex) =>
        LET order == PriorityOrder(athIn.config)
            hits  == { i \in DOMAIN order : athIn.verdict[order[i]] }
        IN  IF hits = {}
            THEN /\ athOut[1].consulted = order
                 /\ ~athOut[1].is_identified
                 /\ athOut[1].checker_name = AthenaName
            ELSE LET k == CHOOSE i \in hits : \A j \in hits : i <= j
                 IN  /\ athOut[1].consulted = SubSeq(order, 1, k)
                     /\ athOut[1].checker_name = order[k]

C10_Witness ==
    /\ athOut # <<>>
    /\ ~athIn.config.regex
    /\ athIn.config.wordlist
    /\ athIn.verdict["RegexChecker"]
    /\ ~athIn.verdict["WordlistChecker"]
    /\ ~athIn.verdict["LemmeKnow"]
    /\ athIn.verdict["PasswordChecker"]
    /\ athIn.verdict["EnglishChecker"]
    /\ athOut[1].checker_name = "PasswordChecker"
    /\ athOut[1].consulted = <<"WordlistChecker", "LemmeKnow", "PasswordChecker">>

\* The checkers a config makes Athena consult, as the claims name them.
ConsultOrder(config) ==
    IF config.regex THEN <<"RegexChecker">> ELSE PriorityOrder(config)

\* C11: when human_checker_on is true and a sub-checker Athena consults is
\* positive, the identified flag Athena returns equals the confirmation
\* collaborator's reply and Athena returns at that checker, consulting no
\* lower-priority checker, also when the reply is false.
C11_HumanReplyDecidesAndStops ==
    (athOut # <<>> /\ athIn.config.human_checker_on) =>
        LET order == ConsultOrder(athIn.config)
            hits  == { i \in DOMAIN order : athIn.verdict[order[i]] }
        IN  hits # {} =>
                LET k == CHOOSE i \in hits : \A j \in hits : i <= j
                IN  /\ athOut[1].is_identified = athIn.reply
                    /\ athOut[1].consulted = SubSeq(order, 1, k)
                    /\ athOut[1].checker_name = order[k]

C11_Witness ==
    /\ athOut # <<>>
    /\ athIn.config.human_checker_on
    /\ ~athIn.config.regex
    /\ ~athIn.config.wordlist
    /\ athIn.verdict["LemmeKnow"]
    /\ athIn.verdict["EnglishChecker"]
    /\ ~athIn.reply
    /\ ~athOut[1].is_identified
    /\ athOut[1].consulted = <<"LemmeKnow">>

\* Checker<RegexChecker>::check under the regex of the calling config: the
\* configured pattern, ^hello, matches the decoded sentence and no input.
RegexCheck(text) == text = "hello there general"

\* The call returned its input as already plaintext: the early exit of the
\* entry check (lib.rs 173-196), not a cached row and not a search result.
ReturnedAsPlaintext(c) ==
    /\ ~c.from_cache
    /\ c.ret # <<>>
    /\ "search" \notin Range(c.events)

\* C12: when config.regex is present the check of the raw input at entry uses
\* the regex checker only: an input the regex does not match is never
\* returned as already plaintext, whatever the other checkers say about it.
C12_RegexDecidesEntryCheck ==
    call # <<>> =>
        ((call[1].config.regex /\ ~RegexCheck(call[1].text))
            => ~ReturnedAsPlaintext(call[1]))

(***************************************************************************)
(*                     filter_decoders_by_tags                             *)
(***************************************************************************)

\* get_all_decoders(): the decoders of src/src/decoders with the name and the
\* tags each Decoder::new() gives them.
AllDecoders ==
    << [name |-> "a1z26",            tags |-> <<"A1Z26", "substitution", "decoder">>],
       [name |-> "Base45",           tags |-> <<"base45", "qr", "decoder", "covid">>],
       [name |-> "Columnar Transposition", tags |-> <<"columnar", "transposition", "classical", "cipher">>],
       [name |-> "Four Square",      tags |-> <<"foursquare", "classical", "substitution", "digraph", "cipher">>],
       [name |-> "HashCrack",        tags |-> <<"hash", "md5", "sha1", "sha256", "cracker", "dictionary", "decoder">>],
       [name |-> "JWT",              tags |-> <<"jwt", "token", "json", "web", "decoder">>],
       [name |-> "Monoalphabetic",   tags |-> <<"substitution", "classical", "cipher", "monoalphabetic">>],
       [name |-> "Playfair",         tags |-> <<"playfair", "classical", "substitution", "digraph", "cipher">>],
       [name |-> "Polybius Square",  tags |-> <<"polybius", "classical", "substitution", "cipher">>],
       [name |-> "Quoted-Printable", tags |-> <<"quoted-printable", "email", "decoder", "mime">>],
       [name |-> "ROT18",            tags |-> <<"rot18", "rot", "classical", "cipher", "reciprocal">>],
       [name |-> "ROT5",             tags |-> <<"rot5", "rot", "classical", "cipher", "reciprocal">>],
       [name |-> "Tap Code",         tags |-> <<"tap", "tap code", "classical", "polybius", "cipher">>],
       [name |-> "XOR",              tags |-> <<"xor", "decryption", "classic", "brute-force">>] >>

\* The tags the filters of the model are built from.
TagPool == {"decoder", "cipher", "substitution", "base", "rot"}

\* The longest include and exclude list of a filter.
MaxTags == 2

TagLists == UNION { [1 .. n -> TagPool] : n \in 0 .. MaxTags }

\* DecoderFilter::new() followed by include_tag / exclude_tag pushes.
DecoderFilters == [exclude_tags : TagLists, include_tags : TagLists]

\* The DecoderResult of a search node: its text and the CrackResults of the
\* decoders applied along its path.
TextStructs ==
    { [path |-> p, text |-> <<"TXIgUm9ib3QgaXMgZ3JlYXQ=">>] :
        p \in {<<>>} \cup { <<[decoder |-> n]>> : n \in {"ROT5", "Base45"} }
               \cup { <<[decoder |-> "a1z26"], [decoder |-> "XOR"]>> } }

\* tags.iter().any(|tag| *tag == wanted)
HasTag(tags, wanted) == \E i \in DOMAIN tags : tags[i] = wanted

matches_includeWins(filter, decoder) ==
    /\ filter.include_tags # <<>>
        => \E i \in DOMAIN filter.include_tags : HasTag(decoder.tags, filter.include_tags[i])
    /\ (filter.exclude_tags # <<>> /\ filter.include_tags = <<>>)
        => ~ \E i \in DOMAIN filter.exclude_tags : HasTag(decoder.tags, filter.exclude_tags[i])

\* DecoderFilter::matches
matches(filter, decoder) ==
    LET has_included_tag ==
            \E i \in DOMAIN filter.include_tags : HasTag(decoder.tags, filter.include_tags[i])
        has_excluded_tag ==
            \E i \in DOMAIN filter.exclude_tags : HasTag(decoder.tags, filter.exclude_tags[i])
    IN  IF filter.include_tags # <<>> /\ ~has_included_tag
        THEN FALSE
        ELSE IF filter.exclude_tags # <<>> /\ has_excluded_tag
        THEN FALSE
        ELSE TRUE

\* filter_decoders_by_tags(_text_struct, filter): the registry, filtered by
\* filter.matches; the node is not read.
filter_decoders_by_tags(text_struct, filter) ==
    LET keep(decoder) == matches(filter, decoder)
    IN  SelectSeq(AllDecoders, keep)

FilterDecodersByTags ==
    \E text_struct \in TextStructs, filter \in DecoderFilters :
        /\ filt = <<>>
        /\ filt' = <<[filter |-> filter, text_struct |-> text_struct]>>
        /\ filtered' = <<filter_decoders_by_tags(text_struct, filter)>>
        /\ UNCHANGED <<performVars, athenaVars, runVars, crackVars, fnVars>>

\* The caller is done with the returned Decoders.
DropDecoders ==
    /\ filt # <<>>
    /\ filt' = <<>>
    /\ filtered' = <<>>
    /\ UNCHANGED <<performVars, athenaVars, runVars, crackVars, fnVars>>

InitFilter ==
    /\ PerformIdle
    /\ athIn = AthenaIdle
    /\ athOut = <<>>
    /\ RunIdle
    /\ FilterIdle
    /\ CrackIdle
    /\ FnIdle

NextFilter ==
    \/ FilterDecodersByTags
    \/ DropDecoders

SpecFilter == InitFilter /\ [][NextFilter]_vars

(***************************************************************************)
(*               Properties of filter_decoders_by_tags                     *)
(***************************************************************************)

\* The identifiers of the decoders already applied along a node's path.
AlreadyApplied(text_struct) ==
    { text_struct.path[i].decoder : i \in DOMAIN text_struct.path }

\* C13: the decoder set filtration returns for a search node never contains a
\* decoder whose identifier is in that node's already-applied set.
C13_NeverReturnsAppliedDecoder ==
    filt # <<>> =>
        \A i \in DOMAIN filtered[1] :
            filtered[1][i].name \notin AlreadyApplied(filt[1].text_struct)

\* The tags of a decoder or of a list of the filter, as a set.
TagSet(tags) == { tags[i] : i \in DOMAIN tags }

\* C14: filter_decoders_by_tags returns exactly the registry decoders d for
\* which (the include set is empty or d has a tag equal to an include tag) and
\* d has no tag equal to an exclude tag; exclusion wins over inclusion, and an
\* empty filter returns every decoder.
C14_ExactlyTheMatchingDecoders ==
    filt # <<>> =>
        LET include == TagSet(filt[1].filter.include_tags)
            exclude == TagSet(filt[1].filter.exclude_tags)
            wanted(d) == /\ (include = {} \/ TagSet(d.tags) \cap include # {})
                         /\ TagSet(d.tags) \cap exclude = {}
        IN  /\ filtered[1] = SelectSeq(AllDecoders, wanted)
            /\ (include = {} /\ exclude = {}) => filtered[1] = AllDecoders

C14_Witness ==
    /\ filt # <<>>
    /\ filt[1].filter.include_tags = <<"decoder">>
    /\ filt[1].filter.exclude_tags = <<"cipher", "substitution">>
    /\ { filtered[1][i].name : i \in DOMAIN filtered[1] } = {"Base45", "HashCrack", "JWT", "Quoted-Printable"}

(***************************************************************************)
(*                         Crack::crack                                    *)
(* A text is the sequence of the bytes of a &str.                          *)
(***************************************************************************)

\* The checker handed to crack: it identifies the texts of `plain` and names
\* itself in the CheckResult.
CheckerCheck(checker, text) ==
    [checker_name |-> checker.name, is_identified |-> text \in checker.plain]

\* CrackResult::update_checker(&checker_result)
update_checker(results, checker_result) ==
    [results EXCEPT !.checker_name = checker_result.checker_name,
                    !.success = checker_result.is_identified]

\* decoders::interface::check_string_success(decoded_text, original_text):
\* the not-trivial filter, the decoded text differs from the input.
check_string_success(decoded_text, original_text) ==
    decoded_text # original_text

\* u8 ^ u8
XorByte(a, b) ==
    LET x(i) == ((a \div (2 ^ i)) + (b \div (2 ^ i))) % 2
    IN  x(0) + 2 * x(1) + 4 * x(2) + 8 * x(3) + 16 * x(4) + 32 * x(5) + 64 * x(6) + 128 * x(7)

\* String::from_utf8(bytes).is_ok(): well-formed UTF-8 from position i on.
RECURSIVE Utf8From(_, _)
Utf8From(b, i) ==
    IF i > Len(b)
    THEN TRUE
    ELSE LET c == b[i]
             within(j, lo, hi) == j <= Len(b) /\ b[j] >= lo /\ b[j] <= hi
             cont(j) == within(j, 128, 191)
         IN  CASE c < 128 -> Utf8From(b, i + 1)
               [] c >= 194 /\ c <= 223 -> cont(i + 1) /\ Utf8From(b, i + 2)
               [] c = 224 -> within(i + 1, 160, 191) /\ cont(i + 2) /\ Utf8From(b, i + 3)
               [] (c >= 225 /\ c <= 236) \/ c = 238 \/ c = 239 ->
                        cont(i + 1) /\ cont(i + 2) /\ Utf8From(b, i + 3)
               [] c = 237 -> within(i + 1, 128, 159) /\ cont(i + 2) /\ Utf8From(b, i + 3)
               [] c = 240 -> within(i + 1, 144, 191) /\ cont(i + 2) /\ cont(i + 3) /\ Utf8From(b, i + 4)
               [] c >= 241 /\ c <= 243 -> cont(i + 1) /\ cont(i + 2) /\ cont(i + 3) /\ Utf8From(b, i + 4)
               [] c = 244 -> within(i + 1, 128, 143) /\ cont(i + 2) /\ cont(i + 3) /\ Utf8From(b, i + 4)
               [] OTHER -> FALSE

Utf8Valid(bytes) == Utf8From(bytes, 1)

\* The digits of {:x}.
HexDigits == <<"0", "1", "2", "3", "4", "5", "6", "7", "8", "9", "a", "b", "c", "d", "e", "f">>

XorKeyString_noPadding(key) ==
    IF key < 16
    THEN "0x" \o HexDigits[key + 1]
    ELSE "0x" \o HexDigits[(key \div 16) + 1] \o HexDigits[(key % 16) + 1]

\* format!("0x{:02x}", key)
XorKeyString(key) ==
    "0x" \o HexDigits[(key \div 16) + 1] \o HexDigits[(key % 16) + 1]

\* for key in 1..=255
XorFirstKey == 1
XorLastKey == 255

XorHit_keepsNoCandidate(results, decoded_text, checker_result, key) ==
    [update_checker(results, checker_result) EXCEPT !.key = <<XorKeyString(key)>>]

\* The early exit of the XOR loop (xor_decoder.rs 61-68): the one candidate,
\* the checker's result and the key.
XorHit(results, decoded_text, checker_result, key) ==
    [update_checker([results EXCEPT !.unencrypted_text = << <<decoded_text>> >>], checker_result)
        EXCEPT !.key = <<XorKeyString(key)>>]

\* One pass of the body of `for key in 1..=255` (xor_decoder.rs 49-70) on the
\* state of the loop; an early return leaves the state as it is from then on.
XorStep(state, key, text, checker) ==
    IF state.done
    THEN state
    ELSE LET decoded_bytes == [i \in DOMAIN text |-> XorByte(text[i], key)]
             pushed == [state EXCEPT !.decoded_strings = Append(@, decoded_bytes)]
         IN  IF ~Utf8Valid(decoded_bytes)
             THEN state
             ELSE IF ~check_string_success(decoded_bytes, text)
             THEN pushed
             ELSE LET checker_result == CheckerCheck(checker, decoded_bytes)
                  IN  IF checker_result.is_identified
                      THEN [decoded_strings |-> pushed.decoded_strings,
                            done    |-> TRUE,
                            results |-> XorHit(state.results, decoded_bytes, checker_result, key)]
                      ELSE pushed

\* The passes for the keys lo..hi, in ascending order.
RECURSIVE XorKeys(_, _, _, _, _)
XorKeys(lo, hi, state, text, checker) ==
    IF lo > hi
    THEN state
    ELSE IF lo = hi
    THEN XorStep(state, lo, text, checker)
    ELSE LET mid == (lo + hi) \div 2
             half == XorKeys(lo, mid, state, text, checker)
         IN  IF half.done
             THEN half
             ELSE XorKeys(mid + 1, hi, half, text, checker)

\* Decoder<XorDecoder>::crack with the loop begun at first_key.
XorCrackFrom(first_key, text, checker) ==
    LET start == [decoded_strings |-> <<>>,
                  done    |-> FALSE,
                  results |-> CrackResult_new("XOR", text)]
        final == XorKeys(first_key, XorLastKey, start, text, checker)
    IN  IF final.done
        THEN final.results
        ELSE [final.results EXCEPT !.unencrypted_text =
                    IF final.decoded_strings # <<>> THEN <<final.decoded_strings>> ELSE <<>>]

XorDecoder_crack_fromKeyZero(text, checker) ==
    XorCrackFrom(0, text, checker)

\* Decoder<XorDecoder>::crack
XorDecoder_crack(text, checker) ==
    XorCrackFrom(XorFirstKey, text, checker)

\* c.is_ascii_digit()
IsAsciiDigit(c) == c >= 48 /\ c <= 57

\* rot5(text): each ASCII digit moved by five, everything else kept.
rot5(text) ==
    [i \in DOMAIN text |->
        IF IsAsciiDigit(text[i]) THEN (((text[i] - 48) + 5) % 10) + 48 ELSE text[i]]

\* Decoder<Rot5Decoder>::crack
Rot5Decoder_crack(text, checker) ==
    LET results == CrackResult_new("ROT5", text)
        decoded_text == rot5(text)
    IN  IF ~ \E i \in DOMAIN text : IsAsciiDigit(text[i])
        THEN results
        ELSE IF ~check_string_success(decoded_text, text)
        THEN results
        ELSE update_checker([results EXCEPT !.unencrypted_text = << <<decoded_text>> >>],
                            CheckerCheck(checker, decoded_text))

\* str::trim on ASCII text: white space dropped at both ends.
IsWhitespace(c) == c \in {9, 10, 11, 12, 13, 32}

RECURSIVE TrimStart(_)
TrimStart(t) == IF t # <<>> /\ IsWhitespace(Head(t)) THEN TrimStart(Tail(t)) ELSE t

RECURSIVE TrimEnd(_)
TrimEnd(t) ==
    IF t # <<>> /\ IsWhitespace(t[Len(t)]) THEN TrimEnd(SubSeq(t, 1, Len(t) - 1)) ELSE t

Trim(t) == TrimEnd(TrimStart(t))

\* str::to_lowercase on ASCII text
ToLowercase(t) == [i \in DOMAIN t |-> IF t[i] >= 65 /\ t[i] <= 90 THEN t[i] + 32 ELSE t[i]]

\* c.is_ascii_hexdigit()
IsAsciiHexdigit(c) ==
    \/ c >= 48 /\ c <= 57
    \/ c >= 65 /\ c <= 70
    \/ c >= 97 /\ c <= 102

\* The head of common_passwords: "password", "123456", "12345678".
common_passwords == << <<112, 97, 115, 115, 119, 111, 114, 100>>, <<49, 50, 51, 52, 53, 54>>, <<49, 50, 51, 52, 53, 54, 55, 56>> >>

\* MD5 of each password of the list, in hex, as the digest crates compute it.
Md5Hex ==
    << <<53, 102, 52, 100, 99, 99, 51, 98, 53, 97, 97, 55, 54, 53, 100, 54, 49, 100, 56, 51, 50, 55, 100, 101, 98, 56, 56, 50, 99, 102, 57, 57>>,
       <<101, 49, 48, 97, 100, 99, 51, 57, 52, 57, 98, 97, 53, 57, 97, 98, 98, 101, 53, 54, 101, 48, 53, 55, 102, 50, 48, 102, 56, 56, 51, 101>>,
       <<50, 53, 100, 53, 53, 97, 100, 50, 56, 51, 97, 97, 52, 48, 48, 97, 102, 52, 54, 52, 99, 55, 54, 100, 55, 49, 51, 99, 48, 55, 97, 100>> >>

\* Sha1 of each password of the list, in hex, as the digest crates compute it.
Sha1Hex ==
    << <<53, 98, 97, 97, 54, 49, 101, 52, 99, 57, 98, 57, 51, 102, 51, 102, 48, 54, 56, 50, 50, 53, 48, 98, 54, 99, 102, 56, 51, 51, 49, 98, 55, 101, 101, 54, 56, 102, 100, 56>>,
       <<55, 99, 52, 97, 56, 100, 48, 57, 99, 97, 51, 55, 54, 50, 97, 102, 54, 49, 101, 53, 57, 53, 50, 48, 57, 52, 51, 100, 99, 50, 54, 52, 57, 52, 102, 56, 57, 52, 49, 98>>,
       <<55, 99, 50, 50, 50, 102, 98, 50, 57, 50, 55, 100, 56, 50, 56, 97, 102, 50, 50, 102, 53, 57, 50, 49, 51, 52, 101, 56, 57, 51, 50, 52, 56, 48, 54, 51, 55, 99, 48, 100>> >>

\* Sha256 of each password of the list, in hex, as the digest crates compute it.
Sha256Hex ==
    << <<53, 101, 56, 56, 52, 56, 57, 56, 100, 97, 50, 56, 48, 52, 55, 49, 53, 49, 100, 48, 101, 53, 54, 102, 56, 100, 99, 54, 50, 57, 50, 55, 55, 51, 54, 48, 51, 100, 48, 100, 54, 97, 97, 98, 98, 100, 100, 54, 50, 97, 49, 49, 101, 102, 55, 50, 49, 100, 49, 53, 52, 50, 100, 56>>,
       <<56, 100, 57, 54, 57, 101, 101, 102, 54, 101, 99, 97, 100, 51, 99, 50, 57, 97, 51, 97, 54, 50, 57, 50, 56, 48, 101, 54, 56, 54, 99, 102, 48, 99, 51, 102, 53, 100, 53, 97, 56, 54, 97, 102, 102, 51, 99, 97, 49, 50, 48, 50, 48, 99, 57, 50, 51, 97, 100, 99, 54, 99, 57, 50>>,
       <<101, 102, 55, 57, 55, 99, 56, 49, 49, 56, 102, 48, 50, 100, 102, 98, 54, 52, 57, 54, 48, 55, 100, 100, 53, 100, 51, 102, 56, 99, 55, 54, 50, 51, 48, 52, 56, 99, 57, 99, 48, 54, 51, 100, 53, 51, 50, 99, 99, 57, 53, 99, 53, 101, 100, 55, 97, 56, 57, 56, 97, 54, 52, 102>> >>

\* The hex lengths of the digests HashCrack knows.
Md5HexLen == 32
Sha1HexLen == 40
Sha256HexLen == 64

HashTypeOf_md5Only(len) ==
    IF len = Md5HexLen THEN <<"MD5">> ELSE <<>>

\* match text.len() { 32 => "MD5", 40 => "SHA1", 64 => "SHA256", _ => return }
HashTypeOf(len) ==
    CASE len = Md5HexLen    -> <<"MD5">>
      [] len = Sha1HexLen   -> <<"SHA1">>
      [] len = Sha256HexLen -> <<"SHA256">>
      [] OTHER              -> <<>>

\* The comparison of one password's digest with the cleaned text.
Cracked(hash_type, i, text) ==
    CASE hash_type = "MD5"    -> Md5Hex[i] = text
      [] hash_type = "SHA1"   -> Sha1Hex[i] = text
      [] hash_type = "SHA256" -> Sha256Hex[i] = text
      [] OTHER                -> FALSE

\* for password in common_passwords { .. }, from the i-th password on.
RECURSIVE HashLoop(_, _, _, _, _)
HashLoop(i, results, hash_type, text, checker) ==
    IF i > Len(common_passwords)
    THEN results
    ELSE LET password == common_passwords[i]
         IN  IF Cracked(hash_type, i, text)
             THEN IF ~check_string_success(password, text)
                  THEN HashLoop(i + 1, results, hash_type, text, checker)
                  ELSE LET checker_result ==
                               [CheckerCheck(checker, password) EXCEPT !.is_identified = TRUE]
                       IN  update_checker([results EXCEPT !.unencrypted_text = << <<password>> >>],
                                          checker_result)
             ELSE HashLoop(i + 1, results, hash_type, text, checker)

\* Decoder<HashCrackDecoder>::crack
HashCrackDecoder_crack(input, checker) ==
    LET results == CrackResult_new("HashCrack", input)
        text == ToLowercase(Trim(input))
        hash_type == HashTypeOf(Len(text))
    IN  IF hash_type = <<>>
        THEN results
        ELSE IF ~ \A i \in DOMAIN text : IsAsciiHexdigit(text[i])
        THEN results
        ELSE HashLoop(1, results, hash_type[1], text, checker)

\* c.is_ascii_alphabetic()
IsAsciiAlphabetic(c) == (c >= 65 /\ c <= 90) \/ (c >= 97 /\ c <= 122)

\* str::to_uppercase on ASCII text.
ToUppercase(text) ==
    [i \in DOMAIN text |-> IF text[i] >= 97 /\ text[i] <= 122 THEN text[i] - 32 ELSE text[i]]

\* if c == 'J' { 'I' } else { c }
JToI(c) == IF c = 74 THEN 73 ELSE c

\* The cleaning of playfair_decoder.rs 38-43: upper case, the ASCII letters
\* only, J written as I.
CleanText(text) ==
    LET letters == SelectSeq(ToUppercase(text), IsAsciiAlphabetic)
    IN  [i \in DOMAIN letters |-> JToI(letters[i])]

\* b'A'..=b'Z' without J
SquareAlphabet == <<65, 66, 67, 68, 69, 70, 71, 72, 73, 75, 76, 77, 78, 79, 80, 81, 82, 83, 84, 85, 86, 87, 88, 89, 90>>

\* The letters of s that `used` does not hold yet, each once, in order.
RECURSIVE Unused(_, _)
Unused(s, used) ==
    IF s = <<>>
    THEN <<>>
    ELSE IF Head(s) \in used
    THEN Unused(Tail(s), used)
    ELSE <<Head(s)>> \o Unused(Tail(s), used \cup {Head(s)})

generate_key_square_keepsJ(keyword) ==
    Unused(SelectSeq(ToUppercase(keyword), IsAsciiAlphabetic) \o SquareAlphabet, {})

\* generate_key_square(keyword): the square row after row, square[r][c] at
\* position 5 * r + c + 1.
generate_key_square(keyword) ==
    Unused(CleanText(keyword) \o SquareAlphabet, {})

\* find_position(square, c): Some((row, column)) or None.
find_position(square, c) ==
    LET hits == { p \in DOMAIN square : square[p] = JToI(c) }
    IN  IF hits = {}
        THEN <<>>
        ELSE LET p == CHOOSE q \in hits : TRUE
             IN  << <<(p - 1) \div 5, (p - 1) % 5>> >>

SquareAt(square, r, c) == square[5 * r + c + 1]

\* One pair of decrypt_playfair (playfair_decoder.rs 178-199): Some(two
\* letters), or None when a character is not in the square.
DecryptPair(square, a, b) ==
    LET p1 == find_position(square, a)
        p2 == find_position(square, b)
    IN  IF p1 = <<>> \/ p2 = <<>>
        THEN <<>>
        ELSE LET r1 == p1[1][1]
                 c1 == p1[1][2]
                 r2 == p2[1][1]
                 c2 == p2[1][2]
             IN  IF r1 = r2
                 THEN << <<SquareAt(square, r1, (c1 + 4) % 5), SquareAt(square, r2, (c2 + 4) % 5)>> >>
                 ELSE IF c1 = c2
                 THEN << <<SquareAt(square, (r1 + 4) % 5, c1), SquareAt(square, (r2 + 4) % 5, c2)>> >>
                 ELSE << <<SquareAt(square, r1, c2), SquareAt(square, r2, c1)>> >>

\* decrypt_playfair(text, keyword): Some(text) or None.
decrypt_playfair(text, keyword) ==
    LET square == generate_key_square(keyword)
        pairs == [k \in 1 .. (Len(text) \div 2) |-> DecryptPair(square, text[2 * k - 1], text[2 * k])]
    IN  IF Len(text) % 2 # 0 \/ \E k \in DOMAIN pairs : pairs[k] = <<>>
        THEN <<>>
        ELSE << [i \in DOMAIN text |-> pairs[(i + 1) \div 2][1][((i - 1) % 2) + 1]] >>

\* The head of the keyword list: "password", "secret", "key".
PlayfairKeywords ==
    << <<112, 97, 115, 115, 119, 111, 114, 100>>, <<115, 101, 99, 114, 101, 116>>, <<107, 101, 121>> >>

\* if keyword.len() < 4 { continue; }
MinKeywordLen == 4

\* is_likely_english returns false below this length (cryptanalysis/mod.rs 273).
MinLikelyLen == 10

\* The decoded text of one keyword, lower case, or none (a short keyword, or
\* decrypt_playfair gave None).
PlayfairDecoded(clean_text, i) ==
    IF Len(PlayfairKeywords[i]) < MinKeywordLen
    THEN <<>>
    ELSE LET decoded == decrypt_playfair(clean_text, PlayfairKeywords[i])
         IN  IF decoded = <<>> THEN <<>> ELSE <<ToLowercase(decoded[1])>>

\* A result of Playfair: the one candidate, the checker's result, the key.
PlayfairFound(results, plaintext, checker_result, keyword) ==
    [update_checker([results EXCEPT !.unencrypted_text = << <<plaintext>> >>], checker_result)
        EXCEPT !.key = <<ToUppercase(keyword)>>]

\* for keyword in ATTACK_WORDLIST.iter() { .. } from the i-th keyword on, and
\* the fallback after it.  fitness_score and is_likely_english are
\* floating-point statistics of the text: `best` is the keyword they rank
\* first and `likely` their verdict on its text, each taken over all values.
RECURSIVE PlayfairLoop(_, _, _, _, _, _, _)
PlayfairLoop(i, results, text, clean_text, checker, best, likely) ==
    IF i > Len(PlayfairKeywords)
    THEN LET best_plaintext == PlayfairDecoded(clean_text, best)
         IN  IF best_plaintext # <<>> /\ likely /\ Len(best_plaintext[1]) >= MinLikelyLen
             THEN PlayfairFound(results, best_plaintext[1],
                                CheckerCheck(checker, best_plaintext[1]), PlayfairKeywords[best])
             ELSE results
    ELSE LET decoded_lower == PlayfairDecoded(clean_text, i)
         IN  IF /\ decoded_lower # <<>>
                /\ check_string_success(decoded_lower[1], text)
                /\ CheckerCheck(checker, decoded_lower[1]).is_identified
             THEN PlayfairFound(results, decoded_lower[1],
                                CheckerCheck(checker, decoded_lower[1]), PlayfairKeywords[i])
             ELSE PlayfairLoop(i + 1, results, text, clean_text, checker, best, likely)

\* Decoder<PlayfairDecoder>::crack
PlayfairDecoder_crack(text, checker, best, likely) ==
    LET results == CrackResult_new("Playfair", text)
        clean_text == CleanText(text)
    IN  IF Len(clean_text) < 2
        THEN results
        ELSE IF Len(clean_text) % 2 # 0
        THEN results
        ELSE PlayfairLoop(1, results, text, clean_text, checker, best, likely)

\* text.split(sep): the segments between the separators, at least one.
RECURSIVE Split(_, _)
Split(text, sep) ==
    LET hits == { i \in DOMAIN text : text[i] = sep }
    IN  IF hits = {}
        THEN <<text>>
        ELSE LET first == CHOOSE i \in hits : \A j \in hits : i <= j
             IN  <<SubSeq(text, 1, first - 1)>> \o Split(SubSeq(text, first + 1, Len(text)), sep)

\* Engine::decode of the base64 crate for one of the four engines of
\* decode_part: the URL-safe or the standard alphabet, padding required in
\* its canonical form or not allowed; trailing bits must be zero.  Some(bytes)
\* or None.
Base64Decode(part, url_safe, padded) ==
    LET value(c) ==
            CASE c >= 65 /\ c <= 90  -> c - 65
              [] c >= 97 /\ c <= 122 -> c - 71
              [] c >= 48 /\ c <= 57  -> c + 4
              [] c = (IF url_safe THEN 45 ELSE 43) -> 62
              [] c = (IF url_safe THEN 95 ELSE 47) -> 63
              [] OTHER -> -1
        n == Len(part)
        pads == IF padded /\ n >= 2 /\ part[n] = 61
                THEN (IF part[n - 1] = 61 THEN 2 ELSE 1)
                ELSE 0
        body == SubSeq(part, 1, n - pads)
        v == [i \in DOMAIN body |-> value(body[i])]
        rem == Len(body) % 4
        byte(k) ==
            LET j == ((8 * k) \div 6) + 1
                o == (8 * k) % 6
            IN  CASE o = 0 -> v[j] * 4 + (v[j + 1] \div 16)
                  [] o = 2 -> (v[j] % 16) * 16 + (v[j + 1] \div 4)
                  [] OTHER -> (v[j] % 4) * 64 + v[j + 1]
    IN  IF \/ \E i \in DOMAIN v : v[i] < 0
           \/ rem = 1
           \/ (padded /\ (n % 4 # 0 \/ (rem + pads) % 4 # 0))
           \/ (rem = 2 /\ v[Len(v)] % 16 # 0)
           \/ (rem = 3 /\ v[Len(v)] % 4 # 0)
        THEN <<>>
        ELSE << [k \in 1 .. ((Len(body) * 6) \div 8) |-> byte(k - 1)] >>

\* decode_part(part): the first engine that decodes, then String::from_utf8.
decode_part(part) ==
    LET no_pad   == Base64Decode(part, TRUE, FALSE)
        url      == Base64Decode(part, TRUE, TRUE)
        std_no   == Base64Decode(part, FALSE, FALSE)
        std      == Base64Decode(part, FALSE, TRUE)
        decoded_bytes == IF no_pad # <<>> THEN no_pad
                         ELSE IF url # <<>> THEN url
                         ELSE IF std_no # <<>> THEN std_no
                         ELSE std
    IN  IF decoded_bytes # <<>> /\ Utf8Valid(decoded_bytes[1])
        THEN decoded_bytes
        ELSE <<>>

\* The JSON grammar serde_json reads, on valid UTF-8: JsonParse(b, i, item) is
\* the position after the item that starts at position i of b, 0 when there
\* is no such item.  Items: "ws" (blanks, never 0), "digits" (a run of
\* digits, never 0), "value", "number", "string" (after the opening quote),
\* "members" and "elements" (after the opening bracket), "member", "element".
\* A \u escape is four hex digits; the pairing of surrogates, the depth limit
\* and the range of numbers are left out.
RECURSIVE JsonParse(_, _, _)
JsonParse(b, i, item) ==
    LET at(j) == IF j \in DOMAIN b THEN b[j] ELSE -1
        is(j, word) == j + Len(word) - 1 <= Len(b) /\ SubSeq(b, j, j + Len(word) - 1) = word
        digit(j) == at(j) >= 48 /\ at(j) <= 57
        hex(j) == digit(j) \/ (at(j) >= 65 /\ at(j) <= 70) \/ (at(j) >= 97 /\ at(j) <= 102)
    IN  CASE item = "ws" ->
                IF at(i) \in {32, 10, 9, 13} THEN JsonParse(b, i + 1, "ws") ELSE i
          [] item = "digits" ->
                IF digit(i) THEN JsonParse(b, i + 1, "digits") ELSE i
          [] item = "value" ->
                LET j == JsonParse(b, i, "ws")
                IN  CASE at(j) = 123 -> JsonParse(b, j + 1, "members")
                      [] at(j) = 91  -> JsonParse(b, j + 1, "elements")
                      [] at(j) = 34  -> JsonParse(b, j + 1, "string")
                      [] at(j) = 45 \/ digit(j) -> JsonParse(b, j, "number")
                      [] is(j, <<116, 114, 117, 101>>) -> j + 4
                      [] is(j, <<102, 97, 108, 115, 101>>) -> j + 5
                      [] is(j, <<110, 117, 108, 108>>) -> j + 4
                      [] OTHER -> 0
          [] item = "number" ->
                LET j == IF at(i) = 45 THEN i + 1 ELSE i
                    k == IF at(j) = 48 THEN j + 1 ELSE JsonParse(b, j, "digits")
                    m == IF at(k) = 46 THEN JsonParse(b, k + 1, "digits") ELSE k
                    s == IF at(m) \in {101, 69}
                         THEN (IF at(m + 1) \in {43, 45} THEN m + 2 ELSE m + 1)
                         ELSE m
                    n == IF s > m THEN JsonParse(b, s, "digits") ELSE m
                IN  IF k = j \/ (at(k) = 46 /\ m = k + 1) \/ (s > m /\ n = s) THEN 0 ELSE n
          [] item = "string" ->
                CASE at(i) = 34 -> i + 1
                  [] at(i) = 92 ->
                        IF at(i + 1) \in {34, 92, 47, 98, 102, 110, 114, 116}
                        THEN JsonParse(b, i + 2, "string")
                        ELSE IF at(i + 1) = 117 /\ \A d \in 2 .. 5 : hex(i + d)
                        THEN JsonParse(b, i + 6, "string")
                        ELSE 0
                  [] at(i) < 32 -> 0
                  [] OTHER -> JsonParse(b, i + 1, "string")
          [] item = "members" ->
                LET j == JsonParse(b, i, "ws")
                IN  IF at(j) = 125 THEN j + 1 ELSE JsonParse(b, j, "member")
          [] item = "member" ->
                LET j == JsonParse(b, i, "ws")
                    k == IF at(j) = 34 THEN JsonParse(b, j + 1, "string") ELSE 0
                    m == IF k = 0 THEN 0 ELSE JsonParse(b, k, "ws")
                    v == IF m # 0 /\ at(m) = 58 THEN JsonParse(b, m + 1, "value") ELSE 0
                    n == IF v = 0 THEN 0 ELSE JsonParse(b, v, "ws")
                IN  IF n = 0 THEN 0
                    ELSE IF at(n) = 44 THEN JsonParse(b, n + 1, "member")
                    ELSE IF at(n) = 125 THEN n + 1
                    ELSE 0
          [] item = "elements" ->
                LET j == JsonParse(b, i, "ws")
                IN  IF at(j) = 93 THEN j + 1 ELSE JsonParse(b, j, "element")
          [] item = "element" ->
                LET v == JsonParse(b, i, "value")
                    n == IF v = 0 THEN 0 ELSE JsonParse(b, v, "ws")
                IN  IF n = 0 THEN 0
                    ELSE IF at(n) = 44 THEN JsonParse(b, n + 1, "element")
                    ELSE IF at(n) = 93 THEN n + 1
                    ELSE 0

\* serde_json::from_str::<Value>(text).ok().is_some(): one JSON value of any
\* kind, blanks around it and nothing else.
serde_json_from_str_ok(text) ==
    LET v == JsonParse(text, 1, "value")
    IN  v # 0 /\ JsonParse(text, v, "ws") = Len(text) + 1

\* format!("Header: {}\nPayload: {}", header, payload)
JwtFormat(header, payload) ==
    <<72, 101, 97, 100, 101, 114, 58, 32>> \o header
        \o <<10, 80, 97, 121, 108, 111, 97, 100, 58, 32>> \o payload

\* text.split('.') gives exactly this many parts
JwtParts == 3

\* Decoder<JwtDecoder>::crack
JwtDecoder_crack(text, checker) ==
    LET results == CrackResult_new("JWT", text)
        parts == Split(text, 46)
    IN  IF Len(parts) # JwtParts
        THEN results
        ELSE LET header_decoded == decode_part(parts[1])
                 payload_decoded == decode_part(parts[2])
             IN  IF /\ header_decoded # <<>>
                    /\ payload_decoded # <<>>
                    /\ serde_json_from_str_ok(header_decoded[1])
                    /\ serde_json_from_str_ok(payload_decoded[1])
                 THEN LET decoded == JwtFormat(header_decoded[1], payload_decoded[1])
                      IN  update_checker([results EXCEPT !.unencrypted_text = << <<decoded>> >>],
                                         CheckerCheck(checker, decoded))
                 ELSE results

decode_columnar_allColumnsFull(text, num_cols) ==
    IF Len(text) = 0 \/ num_cols = 0
    THEN <<>>
    ELSE LET len == Len(text)
             num_rows == (len + num_cols - 1) \div num_cols
             idx(k) == LET row == (k - 1) \div num_cols
                           col == (k - 1) % num_cols
                       IN  IF col * num_rows + row < len THEN col * num_rows + row + 1 ELSE 0
             pushed == SelectSeq([k \in 1 .. num_rows * num_cols |-> idx(k)], LAMBDA i : i # 0)
             result == [k \in DOMAIN pushed |-> text[pushed[k]]]
         IN  IF result = <<>> THEN <<>> ELSE <<ToLowercase(result)>>

\* decode_columnar(text, num_cols): the text read down the columns, written
\* back row by row, in lower case; Some(text) or None.  col_start is the sum
\* of the heights of the columns before col.
decode_columnar(text, num_cols) ==
    IF Len(text) = 0 \/ num_cols = 0
    THEN <<>>
    ELSE LET len == Len(text)
             num_rows == (len + num_cols - 1) \div num_cols
             full_cols == IF len % num_cols = 0 THEN num_cols ELSE len % num_cols
             col_height(col) == IF col < full_cols THEN num_rows ELSE num_rows - 1
             col_start(col) == IF col <= full_cols
                               THEN col * num_rows
                               ELSE full_cols * num_rows + (col - full_cols) * (num_rows - 1)
             idx(k) == LET row == (k - 1) \div num_cols
                           col == (k - 1) % num_cols
                       IN  IF row < col_height(col) /\ col_start(col) + row < len
                           THEN col_start(col) + row + 1
                           ELSE 0
             pushed == SelectSeq([k \in 1 .. num_rows * num_cols |-> idx(k)], LAMBDA i : i # 0)
             result == [k \in DOMAIN pushed |-> text[pushed[k]]]
         IN  IF result = <<>> THEN <<>> ELSE <<ToLowercase(result)>>

\* decode_columnar_reverse(text, num_cols): the same with the columns of each
\* row taken from the last to the first.
decode_columnar_reverse(text, num_cols) ==
    IF Len(text) = 0 \/ num_cols = 0
    THEN <<>>
    ELSE LET len == Len(text)
             num_rows == (len + num_cols - 1) \div num_cols
             full_cols == IF len % num_cols = 0 THEN num_cols ELSE len % num_cols
             col_height(col) == IF col < full_cols THEN num_rows ELSE num_rows - 1
             col_start(col) == IF col <= full_cols
                               THEN col * num_rows
                               ELSE full_cols * num_rows + (col - full_cols) * (num_rows - 1)
             idx(k) == LET row == (k - 1) \div num_cols
                           col == num_cols - 1 - ((k - 1) % num_cols)
                       IN  IF row < col_height(col) /\ col_start(col) + row < len
                           THEN col_start(col) + row + 1
                           ELSE 0
             pushed == SelectSeq([k \in 1 .. num_rows * num_cols |-> idx(k)], LAMBDA i : i # 0)
             result == [k \in DOMAIN pushed |-> text[pushed[k]]]
         IN  IF result = <<>> THEN <<>> ELSE <<ToLowercase(result)>>

\* (clean_text.len() / 2).clamp(2, 15)
MinCols == 2
MaxCols == 15

\* for num_cols in 2..=max_cols { .. } from num_cols on.  The state of the
\* loop is the CrackResult and the list of the decodings tried so far.
RECURSIVE ColumnarLoop(_, _, _, _, _, _)
ColumnarLoop(num_cols, max_cols, state, text, clean_text, checker) ==
    IF num_cols > max_cols
    THEN state
    ELSE LET normal == decode_columnar(clean_text, num_cols)
             reverse == decode_columnar_reverse(clean_text, num_cols)
             hit(decoded) == /\ decoded # <<>>
                             /\ check_string_success(decoded[1], text)
                             /\ CheckerCheck(checker, decoded[1]).is_identified
             found(decoded, key) ==
                 [update_checker([state.results EXCEPT !.unencrypted_text = << <<decoded>> >>],
                                 CheckerCheck(checker, decoded))
                     EXCEPT !.key = <<key>>]
             tried1 == Append(state.tried, <<num_cols, "normal">>)
             tried2 == Append(tried1, <<num_cols, "reverse">>)
         IN  IF hit(normal)
             THEN [results |-> found(normal[1], ToString(num_cols)), tried |-> tried1]
             ELSE IF hit(reverse)
             THEN [results |-> found(reverse[1], ToString(num_cols) \o " (reverse)"), tried |-> tried2]
             ELSE ColumnarLoop(num_cols + 1, max_cols, [state EXCEPT !.tried = tried2],
                               text, clean_text, checker)

\* Decoder<ColumnarTranspositionDecoder>::crack: the CrackResult, and the
\* decodings it tried.
ColumnarTranspositionDecoder_crack(text, checker) ==
    LET start == [results |-> CrackResult_new("Columnar Transposition", text), tried |-> <<>>]
        clean_text == SelectSeq(text, IsAsciiAlphabetic)
        half == Len(clean_text) \div 2
        max_cols == IF half < MinCols THEN MinCols ELSE IF half > MaxCols THEN MaxCols ELSE half
    IN  IF clean_text = <<>>
        THEN start
        ELSE ColumnarLoop(MinCols, max_cols, start, text, clean_text, checker)

\* decode_a1z26(ctext): replace_all of the regex 2[0-6]|1[0-9]|[1-9] by the
\* letter of the number matched, from position i on; every other character
\* is copied.  The result is the text and whether anything was matched
\* (Cow::Owned); decode_a1z26 proper is the call from position 1.
RECURSIVE A1Z26Replace(_, _)
A1Z26Replace(ctext, i) ==
    IF i > Len(ctext)
    THEN [matched |-> FALSE, text |-> <<>>]
    ELSE LET c == ctext[i]
             next == IF i + 1 <= Len(ctext) THEN ctext[i + 1] ELSE -1
             two == \/ (c = 50 /\ next >= 48 /\ next <= 54)
                    \/ (c = 49 /\ next >= 48 /\ next <= 57)
             one == c >= 49 /\ c <= 57
             num == IF two THEN (c - 48) * 10 + (next - 48) ELSE c - 48
             rest == A1Z26Replace(ctext, IF two THEN i + 2 ELSE i + 1)
         IN  IF two \/ one
             THEN [matched |-> TRUE, text |-> <<65 + num - 1>> \o rest.text]
             ELSE [matched |-> rest.matched, text |-> <<c>> \o rest.text]

\* Decoder<A1Z26Decoder>::crack
A1Z26Decoder_crack(text, checker) ==
    LET results == CrackResult_new("a1z26", text)
        replaced == A1Z26Replace(text, 1)
    IN  IF ~replaced.matched
        THEN results
        ELSE IF ~check_string_success(replaced.text, text)
        THEN results
        ELSE update_checker([results EXCEPT !.unencrypted_text = << <<replaced.text>> >>],
                            CheckerCheck(checker, replaced.text))

\* The checkers of the model: one checker name, every set of the given texts
\* as the texts it identifies.
CheckersOver(texts) == [name : {"EnglishChecker"}, plain : SUBSET texts]

\* "" , "Hi", "HELLO" (xor_basic_test) and a two-byte character.
XorTexts == { <<>>, <<72, 105>>, <<72, 69, 76, 76, 79>>, <<195, 169>> }

\* "", "hello" (HELLO under key 0x20), "IDMMN" (HELLO under key 0x01), "hI" (Hi under 0x20).
XorPlain == { <<>>, <<104, 101, 108, 108, 111>>, <<73, 68, 77, 77, 78>>, <<104, 73>> }

\* "", "10.0.0.1", "hello world!", "0123456789" (the texts of the ROT5 tests).
Rot5Texts == { <<>>, <<49, 48, 46, 48, 46, 48, 46, 49>>, <<104, 101, 108, 108, 111, 32, 119, 111, 114, 108, 100, 33>>, <<48, 49, 50, 51, 52, 53, 54, 55, 56, 57>> }

\* "65.5.5.6", "5678901234"
Rot5Plain == { <<54, 53, 46, 53, 46, 53, 46, 54>>, <<53, 54, 55, 56, 57, 48, 49, 50, 51, 52>> }

\* The MD5 of "password" (test_md5_crack); the same in upper case between a
\* blank and a newline; the SHA-1 of "123456"; the SHA-256 of "12345678".
HashOfPassword == Md5Hex[1]
HashUpperPadded == <<32>> \o [i \in DOMAIN Md5Hex[1] |->
                        IF Md5Hex[1][i] >= 97 THEN Md5Hex[1][i] - 32 ELSE Md5Hex[1][i]] \o <<10>>

\* Texts that are no digest of the list: 32 hex digits of nothing known, 32
\* characters with one that is no hex digit, 31 hex digits, "password", "".
HashMisses ==
    { [i \in 1 .. Md5HexLen |-> 48],
      [Md5Hex[1] EXCEPT ![Md5HexLen] = 103],
      SubSeq(Md5Hex[1], 1, Md5HexLen - 1),
      common_passwords[1],
      <<>> }

HashTexts == { HashOfPassword, HashUpperPadded, Sha1Hex[2], Sha256Hex[3] } \cup HashMisses

HashPlain == { common_passwords[1] }

\* "", "a", "abc", "hello world" (ten letters, a blank, a double letter),
\* "BMODZBXDNA" (the head of the text of test_decoder_integration).
PlayfairTexts ==
    { <<>>, <<97>>, <<97, 98, 99>>,
      <<104, 101, 108, 108, 111, 32, 119, 111, 114, 108, 100>>,
      <<66, 77, 79, 68, 90, 66, 88, 68, 78, 65>> }

\* What the keywords "password" and "secret" make of the two long texts.
PlayfairPlain ==
    { PlayfairDecoded(CleanText(t), i)[1] :
        t \in { u \in PlayfairTexts : Len(u) >= MinLikelyLen }, i \in 1 .. 2 }

\* The token of test_jwt_decode; then tokens whose first two segments are
\* {} {}, 1 1, {} with padding, {} [], "" {}, {} and a nested object,
\* {"a":1} x, {} and {"a , not base64, not UTF-8; two segments, four, none.
JwtTexts ==
    { <<101, 121, 74, 104, 98, 71, 99, 105, 79, 105, 74, 73, 85, 122, 73, 49, 78, 105, 73, 115, 73, 110, 82, 53, 99, 67, 73, 54, 73, 107, 112, 88, 86, 67, 74, 57, 46, 101, 121, 74, 122, 100, 87, 73, 105, 79, 105, 73, 120, 77, 106, 77, 48, 78, 84, 89, 51, 79, 68, 107, 119, 73, 105, 119, 105, 98, 109, 70, 116, 90, 83, 73, 54, 73, 107, 112, 118, 97, 71, 52, 103, 82, 71, 57, 108, 73, 105, 119, 105, 97, 87, 70, 48, 73, 106, 111, 120, 78, 84, 69, 50, 77, 106, 77, 53, 77, 68, 73, 121, 102, 81, 46, 83, 102, 108, 75, 120, 119, 82, 74, 83, 77, 101, 75, 75, 70, 50, 81, 84, 52, 102, 119, 112, 77, 101, 74, 102, 51, 54, 80, 79, 107, 54, 121, 74, 86, 95, 97, 100, 81, 115, 115, 119, 53, 99>>,
      <<101, 51, 48, 46, 101, 51, 48, 46, 115, 105, 103>>,
      <<77, 81, 46, 77, 81, 46, 115, 105, 103>>,
      <<101, 51, 48, 61, 46, 101, 51, 48, 46, 115>>,
      <<101, 51, 48, 46, 87, 49, 48, 46, 115>>,
      <<73, 105, 73, 46, 101, 51, 48, 46, 115>>,
      <<101, 51, 48, 46, 101, 121, 74, 104, 73, 106, 112, 98, 77, 83, 119, 116, 77, 105, 52, 49, 90, 84, 77, 115, 100, 72, 74, 49, 90, 83, 120, 117, 100, 87, 120, 115, 76, 67, 74, 99, 98, 105, 74, 100, 102, 81, 46, 115>>,
      <<101, 121, 74, 104, 73, 106, 111, 120, 102, 83, 66, 52, 46, 101, 51, 48, 46, 115>>,
      <<101, 51, 48, 46, 101, 121, 74, 104, 46, 115>>,
      <<33, 33, 46, 101, 51, 48, 46, 115>>,
      <<95, 119, 46, 101, 51, 48, 46, 115>>,
      <<101, 51, 48, 46, 101, 51, 48>>,
      <<101, 51, 48, 46, 101, 51, 48, 46, 97, 46, 98>>,
      <<>> }

\* "", "1 2", "AB", "abc", "HLOEL" and "HLODELLORW" (the texts of the tests),
\* and 32 letters.
ColumnarTexts ==
    { <<>>, <<49, 32, 50>>, <<65, 66>>, <<97, 98, 99>>, <<72, 76, 79, 69, 76>>,
      <<72, 76, 79, 68, 69, 76, 76, 79, 82, 87>>,
      <<97, 98, 99, 100, 101, 102, 103, 104, 105, 106, 107, 108, 109, 110, 111, 112, 113, 114, 115, 116, 117, 118, 119, 120, 121, 122, 97, 98, 99, 100, 101, 102>> }

\* One call of a decoder's crack.
Crack(decoder, text, checker, result) ==
    /\ crackIn = <<>>
    /\ crackIn' = <<[checker |-> checker, decoder |-> decoder, text |-> text]>>
    /\ crackOut' = <<result>>
    /\ UNCHANGED <<performVars, athenaVars, runVars, filterVars, fnVars>>

CrackXor ==
    \E text \in XorTexts, checker \in CheckersOver(XorPlain) :
        Crack("XOR", text, checker, XorDecoder_crack(text, checker))

CrackRot5 ==
    \E text \in Rot5Texts, checker \in CheckersOver(Rot5Plain) :
        Crack("ROT5", text, checker, Rot5Decoder_crack(text, checker))

CrackHashCrack ==
    \E text \in HashTexts, checker \in CheckersOver(HashPlain) :
        Crack("HashCrack", text, checker, HashCrackDecoder_crack(text, checker))

CrackPlayfair ==
    \E text \in PlayfairTexts, checker \in CheckersOver(PlayfairPlain),
       best \in DOMAIN PlayfairKeywords, likely \in BOOLEAN :
        Crack("Playfair", text, checker, PlayfairDecoder_crack(text, checker, best, likely))

CrackJwt ==
    \E text \in JwtTexts, checker \in CheckersOver({JwtFormat(<<123, 125>>, <<123, 125>>)}) :
        Crack("JWT", text, checker, JwtDecoder_crack(text, checker))

\* One call of the Columnar Transposition crack; the decodings it tried are
\* kept next to the CrackResult.  The checkers know of "ab", "acb", "hello".
CrackColumnar ==
    \E text \in ColumnarTexts,
       checker \in CheckersOver({ <<97, 98>>, <<97, 99, 98>>, <<104, 101, 108, 108, 111>> }) :
        LET done == ColumnarTranspositionDecoder_crack(text, checker)
        IN  /\ crackIn = <<>>
            /\ crackIn' = <<[checker |-> checker, decoder |-> "Columnar Transposition", text |-> text]>>
            /\ crackOut' = <<done.results, done.tried>>
            /\ UNCHANGED <<performVars, athenaVars, runVars, filterVars, fnVars>>

\* The texts of the A1Z26 tests ("1 2 3 x 4 5 6", "27", "0", "", " ",
\* delimiters only), and "8 5 12 12 15", "100", "hello", "1-26"; the checkers
\* know of "H E L L O".
CrackA1Z26 ==
    \E text \in { <<49, 32, 50, 32, 51, 32, 120, 32, 52, 32, 53, 32, 54>>, <<50, 55>>, <<48>>,
                  <<>>, <<32>>, <<32, 9, 45, 58, 44, 32, 59, 10>>,
                  <<56, 32, 53, 32, 49, 50, 32, 49, 50, 32, 49, 53>>, <<49, 48, 48>>,
                  <<104, 101, 108, 108, 111>>, <<49, 45, 50, 54>> },
       checker \in CheckersOver({ <<72, 32, 69, 32, 76, 32, 76, 32, 79>> }) :
        Crack("a1z26", text, checker, A1Z26Decoder_crack(text, checker))

\* The caller is done with the CrackResult.
DropCrackResult ==
    /\ crackIn # <<>>
    /\ crackIn' = <<>>
    /\ crackOut' = <<>>
    /\ UNCHANGED <<performVars, athenaVars, runVars, filterVars, fnVars>>

InitCrack ==
    /\ PerformIdle
    /\ athIn = AthenaIdle
    /\ athOut = <<>>
    /\ RunIdle
    /\ FilterIdle
    /\ CrackIdle
    /\ FnIdle

NextCrack ==
    \/ CrackXor
    \/ CrackRot5
    \/ CrackHashCrack
    \/ CrackPlayfair
    \/ CrackJwt
    \/ CrackColumnar
    \/ CrackA1Z26
    \/ DropCrackResult

SpecCrack == InitCrack /\ [][NextCrack]_vars

(***************************************************************************)
(*                      Properties of Crack::crack                         *)
(***************************************************************************)

\* The candidates of a CrackResult: those of Some(list), none for None.
Candidates(r) == IF r.unencrypted_text = <<>> THEN <<>> ELSE r.unencrypted_text[1]

\* C15: every CrackResult a decoder's crack returns has success = false, or
\* success = true with at least one candidate and the name of the checker;
\* none has success = true with an empty or absent candidate list.
C15_SuccessHasCandidateAndChecker ==
    crackOut # <<>> =>
        (crackOut[1].success =>
            /\ crackOut[1].unencrypted_text # <<>>
            /\ Len(Candidates(crackOut[1])) >= 1
            /\ crackOut[1].checker_name # "")

\* XOR stopped at a key: success with its one candidate and the checker's name.
C15_Witness ==
    /\ crackOut # <<>>
    /\ crackOut[1].success
    /\ crackIn[1].decoder = "XOR"
    /\ Len(Candidates(crackOut[1])) = 1
    /\ crackOut[1].checker_name = "EnglishChecker"

\* Playfair returned the text its statistics rank first, the checker negative on it.
PlayfairFallbackReturned ==
    /\ crackOut # <<>>
    /\ crackIn[1].decoder = "Playfair"
    /\ crackOut[1].unencrypted_text # <<>>
    /\ ~crackOut[1].success

\* C16: every candidate of a CrackResult a decoder returns passes the
\* not-trivial filter against that decoder's input.
C16_CandidatesPassNotTrivial ==
    crackOut # <<>> =>
        \A i \in DOMAIN Candidates(crackOut[1]) :
            check_string_success(Candidates(crackOut[1])[i], crackIn[1].text)

\* C17: on the empty input string every decoder's crack returns no
\* candidates and success = false.
C17_EmptyInputNoCandidates ==
    (crackOut # <<>> /\ crackIn[1].text = <<>>) =>
        /\ Candidates(crackOut[1]) = <<>>
        /\ ~crackOut[1].success

\* The output of the XOR of a text with one key.
XorOutput(text, k) == [i \in DOMAIN text |-> XorByte(text[i], k)]

\* The valid-UTF-8 outputs of the keys lo..hi, in ascending key order.
RECURSIVE ValidOutputs(_, _, _)
ValidOutputs(lo, hi, text) ==
    IF lo > hi
    THEN <<>>
    ELSE IF lo = hi
    THEN (IF Utf8Valid(XorOutput(text, lo)) THEN <<XorOutput(text, lo)>> ELSE <<>>)
    ELSE ValidOutputs(lo, (lo + hi) \div 2, text) \o ValidOutputs(((lo + hi) \div 2) + 1, hi, text)

\* "0x" and the key as two hex digits.
TwoHexDigits(k) ==
    LET d == [n \in 0 .. 15 |->
                CASE n = 10 -> "a" [] n = 11 -> "b" [] n = 12 -> "c"
                  [] n = 13 -> "d" [] n = 14 -> "e" [] n = 15 -> "f"
                  [] OTHER -> ToString(n)]
    IN  "0x" \o d[k \div 16] \o d[k % 16]

\* What C18 says of a call of the XOR decoder whose stopping keys are `hits`.
XorContract(hits) ==
    LET text == crackIn[1].text
        r    == crackOut[1]
    IN  IF hits # {}
        THEN LET k == CHOOSE i \in hits : \A j \in hits : i <= j
             IN  /\ Candidates(r) = <<XorOutput(text, k)>>
                 /\ r.success
                 /\ r.key = <<TwoHexDigits(k)>>
        ELSE /\ Candidates(r) = ValidOutputs(1, 255, text)
             /\ ~r.success

C19_CandidateIffKnownDigest ==
    (crackOut # <<>> /\ crackIn[1].decoder = "HashCrack") =>
        LET t == ToLowercase(Trim(crackIn[1].text))
            r == crackOut[1]
            known == { i \in DOMAIN common_passwords :
                        /\ \A j \in DOMAIN t : IsAsciiHexdigit(t[j])
                        /\ \/ Len(t) = 32 /\ t = Md5Hex[i]
                           \/ Len(t) = 40 /\ t = Sha1Hex[i]
                           \/ Len(t) = 64 /\ t = Sha256Hex[i] }
        IN  IF known # {}
            THEN /\ \E i \in known : Candidates(r) = <<common_passwords[i]>>
                 /\ r.success
            ELSE /\ Candidates(r) = <<>>
                 /\ ~r.success

C19_Witness ==
    /\ crackOut # <<>>
    /\ crackIn[1].decoder = "HashCrack"
    /\ crackIn[1].text = HashUpperPadded
    /\ crackIn[1].checker.plain = {}
    /\ crackOut[1].success
    /\ Candidates(crackOut[1]) = << <<112, 97, 115, 115, 119, 111, 114, 100>> >>

\* C20: when HashCrack cracks a hash the key of the CrackResult names the
\* algorithm that matched: "MD5" for 32 digits, the SHA-1 name for 40 and the
\* SHA-256 name for 64.
C20_KeyNamesTheAlgorithm ==
    (crackOut # <<>> /\ crackIn[1].decoder = "HashCrack" /\ crackOut[1].success) =>
        LET n == Len(ToLowercase(Trim(crackIn[1].text)))
        IN  /\ crackOut[1].key # <<>>
            /\ n = 32 => crackOut[1].key[1] = "MD5"
            /\ n = 40 => crackOut[1].key[1] \in {"SHA1", "SHA-1"}
            /\ n = 64 => crackOut[1].key[1] \in {"SHA256", "SHA-256"}

\* The first two segments of a token, decoded, when both decode.
JwtSegments(text) ==
    LET parts == Split(text, 46)
    IN  IF Len(parts) = JwtParts /\ decode_part(parts[1]) # <<>> /\ decode_part(parts[2]) # <<>>
        THEN << decode_part(parts[1])[1], decode_part(parts[2])[1] >>
        ELSE <<>>

\* A text that parses as a JSON object.
IsJsonObject(text) ==
    /\ serde_json_from_str_ok(text)
    /\ JsonParse(text, 1, "ws") \in DOMAIN text
    /\ text[JsonParse(text, 1, "ws")] = 123

\* C21: the JWT decoder returns a candidate iff the input has exactly three
\* segments and the first two base64-decode to JSON objects; the candidate is
\* then "Header: <header>\nPayload: <payload>"; otherwise, also for JSON
\* values that are no objects, it returns no candidates.
C21_CandidateIffTwoJsonObjects ==
    (crackOut # <<>> /\ crackIn[1].decoder = "JWT") =>
        LET segments == JwtSegments(crackIn[1].text)
            objects == segments # <<>> /\ IsJsonObject(segments[1]) /\ IsJsonObject(segments[2])
        IN  IF objects
            THEN Candidates(crackOut[1]) = << JwtFormat(segments[1], segments[2]) >>
            ELSE Candidates(crackOut[1]) = <<>>

\* The decodings the claim names for n letters: the column counts
\* 2..min(15, n/2), each in normal and then in reversed order.
RECURSIVE ClaimedAttempts(_, _)
ClaimedAttempts(num_cols, n) ==
    IF num_cols > n \div 2 \/ num_cols > 15
    THEN <<>>
    ELSE << <<num_cols, "normal">>, <<num_cols, "reverse">> >> \o ClaimedAttempts(num_cols + 1, n)

\* C23: for an input with n letters the Columnar Transposition decoder tries
\* exactly the column counts 2..min(15, n/2), each in normal and then
\* reversed order (all of them unless it stops at a success), and none when
\* n/2 < 2.
C23_TriesTwoToHalfTheLetters ==
    (crackOut # <<>> /\ crackIn[1].decoder = "Columnar Transposition") =>
        LET n == Len(SelectSeq(crackIn[1].text, IsAsciiAlphabetic))
            claimed == ClaimedAttempts(2, n)
            tried == crackOut[2]
        IN  IF crackOut[1].success
            THEN tried # <<>> /\ Len(tried) <= Len(claimed) /\ tried = SubSeq(claimed, 1, Len(tried))
            ELSE tried = claimed

\* A text made solely of numbers in 1..26 and of the delimiters
\* ',' ';' ':' '-' and white space.
A1Z26Domain(text) ==
    LET digit(i) == i \in DOMAIN text /\ IsAsciiDigit(text[i])
    IN  /\ \A i \in DOMAIN text :
                digit(i) \/ text[i] \in {44, 59, 58, 45} \/ IsWhitespace(text[i])
        /\ \A i \in DOMAIN text :
                (digit(i) /\ ~digit(i - 1)) =>
                    \/ ~digit(i + 1) /\ text[i] # 48
                    \/ /\ digit(i + 1)
                       /\ ~digit(i + 2)
                       /\ (text[i] - 48) * 10 + (text[i + 1] - 48) \in 1 .. 26

\* C24: A1Z26 returns no candidates whenever the input holds a character
\* other than digits and the delimiters, or a number outside 1..26; only
\* inputs made solely of in-range numbers and delimiters are decoded.
C24_FailsOutsideItsDomain ==
    (crackOut # <<>> /\ crackIn[1].decoder = "a1z26") =>
        (~A1Z26Domain(crackIn[1].text) => Candidates(crackOut[1]) = <<>>)

\* C26: when top_results is set, perform switches the human checker off and
\* empties the tally before the cache lookup, the entry check and the search;
\* the tally then holds what this call recorded and nothing of an earlier call.
C26_TopResultsClearsTallyFirst ==
    (call # <<>> /\ call[1].config.top_results) =>
        /\ ~NormalizeConfig(call[1].config).human_checker_on
        /\ call[1].events[1] = "clear_tally"
        /\ \A i \in 2 .. Len(call[1].events) : call[1].events[i] # "clear_tally"
        /\ tally = IF call[1].from_cache
                   THEN <<>>
                   ELSE check_if_input_text_is_plaintext(call[1].text, call[1].config, <<>>).tally
                            \o call[1].search.found

\* A top_results call, the human checker asked for, that found the tally of
\* an earlier call and left only its own two entries.
C26_Witness ==
    /\ call # <<>>
    /\ call[1].config.top_results
    /\ call[1].config.human_checker_on
    /\ call[1].tallyBefore # <<>>
    /\ Len(tally) = 2
    /\ tally # call[1].tallyBefore

\* The call returned a result that was not served from the cache, and its
\* store succeeded.
StoredFreshResult(c) ==
    /\ c.ret # <<>>
    /\ ~c.from_cache
    /\ c.stores # <<>>
    /\ ~c.faults.store

\* What the next call on the same text returns, for one config, one set of
\* storage failures and one outcome of its search.
NextPerformReturns(c, config, faults, s) ==
    PerformCracking(c.text, config, cache, tally, faults, s).ret

rot18_lettersByTwelve(text) ==
    [i \in DOMAIN text |->
        LET c == text[i]
        IN  IF IsAsciiAlphabetic(c)
            THEN LET base == IF c >= 97 THEN 97 ELSE 65
                 IN  ((c - base + 12) % 26) + base
            ELSE IF IsAsciiDigit(c)
            THEN (((c - 48) + 5) % 10) + 48
            ELSE c]

\* rot18(text): ROT13 on the ASCII letters, ROT5 on the ASCII digits,
\* everything else kept.
rot18(text) ==
    [i \in DOMAIN text |->
        LET c == text[i]
        IN  IF IsAsciiAlphabetic(c)
            THEN LET base == IF c >= 97 THEN 97 ELSE 65
                 IN  ((c - base + 13) % 26) + base
            ELSE IF IsAsciiDigit(c)
            THEN (((c - 48) + 5) % 10) + 48
            ELSE c]

\* The longest text of FnTexts over FnAlphabet.
MaxFnLen == 2

\* '0', '4', '5', '9', 'a', 'm', 'n', 'Z', '-', and the two bytes of an e acute.
FnAlphabet == {48, 52, 53, 57, 97, 109, 110, 90, 45}

\* The texts the functions are applied to: every single ASCII character, an
\* e acute, and every text of FnAlphabet up to MaxFnLen.
FnTexts ==
    { <<c>> : c \in 0 .. 127 } \cup { <<195, 169>> }
        \cup UNION { [1 .. n -> FnAlphabet] : n \in 0 .. MaxFnLen }

\* ENGLISH_BIGRAM_SCORES: the log probabilities of the table, in tenths, by
\* the pair of upper-case letters.
ENGLISH_BIGRAM_SCORES ==
    (<<84, 72>> :> -20 @@ <<72, 69>> :> -21 @@ <<73, 78>> :> -23 @@ <<69, 82>> :> -24 @@ <<65, 78>> :> -25 @@
       <<82, 69>> :> -26 @@ <<79, 78>> :> -27 @@ <<65, 84>> :> -28 @@ <<69, 78>> :> -28 @@ <<78, 68>> :> -29 @@
       <<84, 73>> :> -30 @@ <<69, 83>> :> -30 @@ <<79, 82>> :> -31 @@ <<84, 69>> :> -31 @@ <<79, 70>> :> -32 @@
       <<69, 68>> :> -32 @@ <<73, 83>> :> -33 @@ <<73, 84>> :> -33 @@ <<65, 76>> :> -34 @@ <<65, 82>> :> -34 @@
       <<83, 84>> :> -35 @@ <<84, 79>> :> -35 @@ <<78, 84>> :> -36 @@ <<78, 71>> :> -36 @@ <<83, 69>> :> -37 @@
       <<72, 65>> :> -37 @@ <<65, 83>> :> -38 @@ <<79, 85>> :> -38 @@ <<73, 79>> :> -39 @@ <<76, 69>> :> -39 @@
       <<86, 69>> :> -40 @@ <<67, 79>> :> -40 @@ <<77, 69>> :> -41 @@ <<68, 69>> :> -41 @@ <<72, 73>> :> -42 @@
       <<82, 73>> :> -42 @@ <<82, 79>> :> -43 @@ <<73, 67>> :> -43 @@ <<78, 69>> :> -44 @@ <<69, 65>> :> -44 @@
       <<82, 65>> :> -45 @@ <<67, 69>> :> -45 @@ <<76, 73>> :> -46 @@ <<67, 72>> :> -46 @@ <<76, 76>> :> -47 @@
       <<66, 69>> :> -47 @@ <<77, 65>> :> -48 @@ <<83, 73>> :> -48 @@ <<79, 77>> :> -49 @@ <<85, 82>> :> -49)

\* unwrap_or(&-10.0), in tenths
AbsentBigramScore == -100

\* if text.len() < 4 { return f64::MIN; }
MinQuadgramLen == 4

\* f64::MIN, as the least number of the model.
F64Min == -2147483647

\* quadgram_score(text), in tenths: the score of every window of two letters
\* of the cleaned text, added up.
quadgram_score(text) ==
    LET chars == SelectSeq(ToUppercase(text), IsAsciiAlphabetic)
        value(i) == IF <<chars[i], chars[i + 1]>> \in DOMAIN ENGLISH_BIGRAM_SCORES
                    THEN ENGLISH_BIGRAM_SCORES[<<chars[i], chars[i + 1]>>]
                    ELSE AbsentBigramScore
        sum[i \in 0 .. Len(chars) - 1] == IF i = 0 THEN 0 ELSE sum[i - 1] + value(i)
    IN  IF Len(chars) < MinQuadgramLen THEN F64Min ELSE sum[Len(chars) - 1]

\* The longest text quadgram_score is applied to.
MaxScoreLen == 5

\* 'T', 'H', 'h', 'x', ' '
ScoreAlphabet == {84, 72, 104, 120, 32}

\* generate_keyed_square(keyword) of the Four-Square decoder, row after row:
\* the letters of the keyword not used yet (J as I, and J marked used with
\* them), then the letters of the alphabet not used yet, J skipped.
generate_keyed_square(keyword) ==
    LET RECURSIVE Fill(_, _, _)
        Fill(s, used, mark) ==
            IF s = <<>>
            THEN [square |-> <<>>, used |-> used]
            ELSE IF Head(s) \in used
            THEN Fill(Tail(s), used, mark)
            ELSE LET rest == Fill(Tail(s), used \cup {Head(s)} \cup mark, mark)
                 IN  [square |-> <<Head(s)>> \o rest.square, used |-> rest.used]
        letters == SelectSeq(ToUppercase(keyword), IsAsciiAlphabetic)
        first == Fill([i \in DOMAIN letters |-> JToI(letters[i])], {}, {74})
        second == Fill(SquareAlphabet, first.used, {})
    IN  first.square \o second.square

\* The longest keyword over KeywordAlphabet.
MaxKeywordLen == 3

\* 'j', 'I', 'a', 'Z', '1'
KeywordAlphabet == {106, 73, 97, 90, 49}

\* Every keyword over KeywordAlphabet up to MaxKeywordLen, the keywords of
\* the tests (KEYWORD, PLAYFAIR, EXAMPLE) and a sentence with all 26 letters.
Keywords ==
    UNION { [1 .. n -> KeywordAlphabet] : n \in 0 .. MaxKeywordLen }
        \cup { <<75, 69, 89, 87, 79, 82, 68>>, <<80, 76, 65, 89, 70, 65, 73, 82>>,
               <<69, 88, 65, 77, 80, 76, 69>>,
               <<116, 104, 101, 32, 113, 117, 105, 99, 107, 32, 98, 114, 111, 119, 110, 32, 102, 111, 120, 32, 106, 117, 109, 112, 115, 32, 111, 118, 101, 114, 32, 116, 104, 101, 32, 108, 97, 122, 121, 32, 100, 111, 103>> }

\* Columnar encoding: the plaintext written in rows of num_cols letters, the
\* columns read from left to right, each from top to bottom.
ColumnarEncode(plain, num_cols) ==
    LET RECURSIVE Columns(_)
        Columns(c) ==
            IF c > num_cols
            THEN <<>>
            ELSE LET rows == { r \in 0 .. Len(plain) : r * num_cols + c <= Len(plain) }
                 IN  [r \in 1 .. Cardinality(rows) |-> plain[(r - 1) * num_cols + c]] \o Columns(c + 1)
    IN  Columns(1)

\* The longest plaintext and the largest column count decode_columnar is
\* checked on.
MaxPlainLen == 5
MaxEncCols == 6

\* One call of a function: its name, its argument and what it returns.
Apply(fn, arg, result) ==
    /\ fnIn = <<>>
    /\ fnIn' = <<[arg |-> arg, fn |-> fn]>>
    /\ fnOut' = <<result>>
    /\ UNCHANGED <<performVars, athenaVars, runVars, filterVars, crackVars>>

InitFn ==
    /\ PerformIdle
    /\ athIn = AthenaIdle
    /\ athOut = <<>>
    /\ RunIdle
    /\ FilterIdle
    /\ CrackIdle
    /\ FnIdle

NextFn ==
    \/ \E s \in FnTexts : Apply("rot5", s, rot5(s))
    \/ \E s \in FnTexts : Apply("rot5(rot5)", s, rot5(rot5(s)))
    \/ \E s \in FnTexts : Apply("rot18", s, rot18(s))
    \/ \E s \in FnTexts : Apply("rot18(rot18)", s, rot18(rot18(s)))
    \/ \E n \in 0 .. MaxScoreLen : \E s \in [1 .. n -> ScoreAlphabet] :
            Apply("quadgram_score", s, quadgram_score(s))
    \/ \E keyword \in Keywords :
            Apply("generate_key_square", keyword, generate_key_square(keyword))
    \/ \E keyword \in Keywords :
            Apply("generate_keyed_square", keyword, generate_keyed_square(keyword))
    \/ \E n \in 1 .. MaxPlainLen : \E p \in [1 .. n -> {97, 66, 99}] : \E c \in 1 .. MaxEncCols :
            Apply("decode_columnar", [num_cols |-> c, plain |-> p, text |-> ColumnarEncode(p, c)],
                  decode_columnar(ColumnarEncode(p, c), c))

SpecFn == InitFn /\ [][NextFn]_vars

(***************************************************************************)
(*                  Properties of the pure functions                       *)
(***************************************************************************)

\* The case of an ASCII letter: "lower", "upper", or "none" for any other byte.
CaseOf(c) == IF c >= 97 /\ c <= 122 THEN "lower" ELSE IF c >= 65 /\ c <= 90 THEN "upper" ELSE "none"

\* C22: rot5(rot5(s)) = s and rot18(rot18(s)) = s for every string s; rot5
\* leaves every non-digit unchanged, rot18 every non-alphanumeric, and both
\* preserve the length and the case of the letters.
C22_SelfInverse ==
    fnIn # <<>> =>
        LET s == fnIn[1].arg
            r == fnOut[1]
        IN  /\ fnIn[1].fn \in {"rot5(rot5)", "rot18(rot18)"} => r = s
            /\ fnIn[1].fn \in {"rot5", "rot18"} =>
                    /\ Len(r) = Len(s)
                    /\ \A i \in DOMAIN s : CaseOf(r[i]) = CaseOf(s[i])
            /\ fnIn[1].fn = "rot5" =>
                    \A i \in DOMAIN s : ~IsAsciiDigit(s[i]) => r[i] = s[i]
            /\ fnIn[1].fn = "rot18" =>
                    \A i \in DOMAIN s :
                        ~(IsAsciiDigit(s[i]) \/ IsAsciiAlphabetic(s[i])) => r[i] = s[i]

\* rot18 applied twice to "Z9", which one application turns into "M4".
C22_Witness ==
    /\ fnIn # <<>>
    /\ fnIn[1].fn = "rot18(rot18)"
    /\ fnIn[1].arg = <<90, 57>>
    /\ rot18(fnIn[1].arg) = <<77, 52>>
    /\ fnOut[1] = <<90, 57>>

\* The scores of the adjacent pairs of letters of a text, in tenths, added up.
RECURSIVE PairSum(_)
PairSum(letters) ==
    IF Len(letters) < 2
    THEN 0
    ELSE (IF <<letters[1], letters[2]>> \in DOMAIN ENGLISH_BIGRAM_SCORES
          THEN ENGLISH_BIGRAM_SCORES[<<letters[1], letters[2]>>]
          ELSE AbsentBigramScore) + PairSum(Tail(letters))

\* C25: the bigram log-score of a text is the mean over its adjacent letter
\* pairs of the table value (-10.0 for an absent pair): the score times the
\* number of pairs is the sum of the pairs' values, and the score is never
\* below -10.0.
C25_ScoreIsTheMeanPerPair ==
    (fnIn # <<>> /\ fnIn[1].fn = "quadgram_score") =>
        LET letters == SelectSeq(ToUppercase(fnIn[1].arg), IsAsciiAlphabetic)
            pairs == Len(letters) - 1
        IN  pairs >= 1 =>
                /\ fnOut[1] * pairs = PairSum(letters)
                /\ fnOut[1] >= AbsentBigramScore

\* C27: for every keyword, generate_key_square (Playfair) and
\* generate_keyed_square (Four-Square) give 25 cells in which each letter of
\* A-Z except J occurs exactly once: first the distinct letters of the
\* keyword (J read as I) in the order of their first occurrence, then the
\* unused letters in alphabetical order.
C27_KeySquareIsAPermutation ==
    (fnIn # <<>> /\ fnIn[1].fn \in {"generate_key_square", "generate_keyed_square"}) =>
        LET square == fnOut[1]
            upper == ToUppercase(fnIn[1].arg)
            letter(i) == IF upper[i] = 74 THEN 73 ELSE upper[i]
            places(c) == { i \in DOMAIN upper : letter(i) = c }
            first(c) == CHOOSE i \in places(c) : \A j \in places(c) : i <= j
            keyed == { letter(i) : i \in { j \in DOMAIN upper : upper[j] >= 65 /\ upper[j] <= 90 } }
            k == Cardinality(keyed)
        IN  /\ Len(square) = 25
            /\ \A c \in (65 .. 90) \ {74} : Cardinality({ i \in DOMAIN square : square[i] = c }) = 1
            /\ \A i \in 1 .. k : square[i] \in keyed
            /\ \A i, j \in 1 .. k : i < j => first(square[i]) < first(square[j])
            /\ \A i, j \in (k + 1) .. 25 : i < j => square[i] < square[j]

\* The square of Four-Square for "EXAMPLE" (test_generate_keyed_square):
\* E X A M P, then L, then the other letters from B on.
C27_Witness ==
    /\ fnIn # <<>>
    /\ fnIn[1].fn = "generate_keyed_square"
    /\ fnIn[1].arg = <<69, 88, 65, 77, 80, 76, 69>>
    /\ SubSeq(fnOut[1], 1, 8) = <<69, 88, 65, 77, 80, 76, 66, 67>>

\* C28: decode_columnar inverts columnar encoding: for every non-empty
\* alphabetic plaintext p and column count c >= 1, decoding with c the
\* encoding of p with c gives p in lower case; the output is as long as the
\* input and uses every letter of it exactly once.
C28_DecodeInvertsEncoding ==
    (fnIn # <<>> /\ fnIn[1].fn = "decode_columnar") =>
        LET arg == fnIn[1].arg
            count(s, x) == Cardinality({ i \in DOMAIN s : s[i] = x })
        IN  /\ fnOut[1] = <<ToLowercase(arg.plain)>>
            /\ Len(fnOut[1][1]) = Len(arg.text)
            /\ \A x \in Range(ToLowercase(arg.text)) :
                    count(fnOut[1][1], x) = count(ToLowercase(arg.text), x)

\* "aBcaB" in two columns is encoded "acBBa" (a c B down the first column,
\* B a down the second) and decoded back to "abcab".
C28_Witness ==
    /\ fnIn # <<>>
    /\ fnIn[1].fn = "decode_columnar"
    /\ fnIn[1].arg.num_cols = 2
    /\ fnIn[1].arg.plain = <<97, 66, 99, 97, 66>>
    /\ fnIn[1].arg.text = <<97, 99, 66, 66, 97>>
    /\ fnOut[1] = << <<97, 98, 99, 97, 98>> >>

====
